---- MODULE Spec2Model ----
(***************************************************************************)
(* Analysis orchestration of the IsoVis backend (services/solver.py) and   *)
(* the request handlers that drive it (routers/analysis.py,                *)
(* routers/comparison.py), as state machines over the calls made to the    *)
(* OpenSees domain.                                                        *)
(*                                                                         *)
(* Spec     one caller invoking run_static_analysis, run_modal_analysis,   *)
(*          run_time_history and run_pushover_analysis, one solver call    *)
(*          (or one group of configuration calls) per step.                *)
(* SpecApi  the HTTP handlers run_analysis and run_comparison as           *)
(*          coroutines of one event loop sharing the solver domain.        *)
(* SpecCount the steps of Spec on one-step runs, counting analyze calls.   *)
(* SpecPure the model-transforming functions (_discretize_elements,        *)
(*          generate_fixed_base_variant, apply_lambda_factor,              *)
(*          _compute_hinge_states, the pushover control node) and the      *)
(*          solver runs of run_comparison, on a heap.                      *)
(* SpecBuild build_model, _compute_deformed_shape and the period loop of   *)
(*          run_modal_analysis as the commands and values they produce.    *)
(* SpecCalc _build_3d_elements, the model schema's validator and the mass  *)
(*          participation loop, each on the input given with the call.     *)
(***************************************************************************)
EXTENDS Integers, Sequences, FiniteSets, TLC

\* ------------------------------------------------------------------ bounds

\* Largest num_steps argument given to run_time_history / run_pushover_analysis.
MaxSteps == 2

\* Largest number of eleResponse queries that raise during one invocation.
MaxFaults == 1

\* Number of HTTP requests served by the event loop in SpecApi.
MaxRequests == 2

\* Largest number of solver calls between the two wipes of one invocation,
\* as seen by SpecApi (the call sequence itself is the subject of Spec).
MaxCalls == 2

\* Largest number of elements of a model given to the pure functions.
MaxElems == 2

\* Largest ratio argument given to _discretize_elements.
MaxRatio == 3

\* Largest end moment of a force list given to _compute_hinge_states.
MaxMoment == 6

\* Largest factor argument given to apply_lambda_factor.
MaxFactor == 2

\* ------------------------------------------------------- program constants

DefaultRatio == 5
BearingTagOffset == 10000
GravitySteps == 50
MiniSteps == 10
ManyBearingsCutoff == 4
NSub1Few == 10
NSub1Many == 20
SubFactor == 5

\* The dt argument, in solver time units chosen so that dt / n_sub1 and
\* dt / (n_sub1 * sub_factor) are whole numbers for both values of n_sub1.
DT == NSub1Few * NSub1Many * SubFactor

\* Number of components of a frame element's force response.
NComp == 2

\* ----------------------------------------------------------------- helpers

Max(S) == CHOOSE x \in S : \A y \in S : y <= x

Range(s) == {s[k] : k \in 1..Len(s)}

SelectSeqIds(s) == {s[k].id : k \in 1..Len(s)}

\* ------------------------------------------------------ declarative models

Node(id, coords, fixity) == [id |-> id, coords |-> coords, fixity |-> fixity]

Elem(id, type, n1, n2) ==
    [id |-> id, type |-> type, nodes |-> <<n1, n2>>, section_id |-> 1,
     transform |-> "Linear"]

Bearing(id, n1, n2) == [id |-> id, nodes |-> <<n1, n2>>, weight |-> 150]

Model(name, nodes, elements, bearings) ==
    [name |-> name, model_info |-> [ndm |-> 2, ndf |-> 3],
     nodes |-> nodes, elements |-> elements, bearings |-> bearings]

\* tests/conftest.py empty_model: no nodes at all.
empty_model == Model("empty", <<>>, <<>>, <<>>)

\* test_solver_unit.py test_raises_if_all_nodes_fixed.
all_fixed_model == Model("all_fixed", <<Node(1, <<0, 0>>, <<1, 1, 1>>)>>, <<>>, <<>>)

\* Two fully restrained nodes joined by one beam-column.
fixed_beam_model ==
    Model("fixed_beam",
          <<Node(1, <<0, 0>>, <<1, 1, 1>>), Node(2, <<0, 300>>, <<1, 1, 1>>)>>,
          <<Elem(1, "elasticBeamColumn", 1, 2)>>, <<>>)

\* tests/conftest.py minimal_2d_model: a cantilever, node 1 fixed, node 2 free.
minimal_2d_model ==
    Model("minimal_2d",
          <<Node(1, <<0, 0>>, <<1, 1, 1>>), Node(2, <<100, 0>>, <<>>)>>,
          <<Elem(1, "elasticBeamColumn", 1, 2)>>, <<>>)

\* A fixed node and a free node joined by a truss (not discretized).
truss_model ==
    Model("truss",
          <<Node(1, <<0, 0>>, <<1, 1, 1>>), Node(2, <<0, 300>>, <<>>)>>,
          <<Elem(7, "truss", 1, 2)>>, <<>>)

\* One TFP bearing between a ground node and a free node.
tfp_model ==
    Model("tfp",
          <<Node(1, <<0, 0>>, <<1, 1, 1>>), Node(2, <<0, 30>>, <<0, 0, 0>>)>>,
          <<>>, <<Bearing(1, 1, 2)>>)

\* Five TFP bearings (more than the many-bearings cutoff) under one slab node.
many_tfp_model ==
    Model("many_tfp",
          <<Node(1, <<0, 0>>, <<1, 1, 1>>), Node(2, <<30, 0>>, <<1, 1, 1>>),
            Node(3, <<60, 0>>, <<1, 1, 1>>), Node(4, <<90, 0>>, <<1, 1, 1>>),
            Node(5, <<120, 0>>, <<1, 1, 1>>), Node(6, <<60, 30>>, <<0, 0, 0>>)>>,
          <<>>,
          <<Bearing(1, 1, 6), Bearing(2, 2, 6), Bearing(3, 3, 6), Bearing(4, 4, 6),
            Bearing(5, 5, 6)>>)

Models ==
    {empty_model, all_fixed_model, fixed_beam_model, minimal_2d_model, truss_model,
     tfp_model, many_tfp_model}

\* --------------------------------------------------- _discretize_elements

\* Variant: truss elements are subdivided as well.
is_line_element(elem) == elem.type \in {"elasticBeamColumn", "truss"}

\* The elements the loop subdivides: `elem["type"] != "elasticBeamColumn"`
\* are appended unchanged.
is_beam_column(elem) == elem.type = "elasticBeamColumn"

\* Variant: the bearing element tags are not taken into account.
first_new_elem_id_ignoring_bearings(all_elem_ids, bearing_tags) ==
    IF all_elem_ids = {} THEN 1 ELSE Max(all_elem_ids) + 1

\* next_elem_id before the loop: one above the largest element id or
\* bearing tag, 1 when there is neither.
first_new_elem_id(all_elem_ids, bearing_tags) ==
    IF all_elem_ids \cup bearing_tags = {} THEN 1
    ELSE Max(all_elem_ids \cup bearing_tags) + 1

node_lookup(data, nid) ==
    IF \E k \in 1..Len(data.nodes) : data.nodes[k].id = nid
    THEN (CHOOSE n \in Range(data.nodes) : n.id = nid).coords
    ELSE <<0, 0, 0>>

\* Variant: every sub-element runs from the original first node.
sub_nodes_from_first(chain_node_ids, q) == <<chain_node_ids[1], chain_node_ids[q + 1]>>

\* `"nodes": [chain_node_ids[k], chain_node_ids[k + 1]]`
sub_nodes(chain_node_ids, q) == <<chain_node_ids[q], chain_node_ids[q + 1]>>

\* One pass of the loop over data["elements"]; acc carries next_node_id,
\* next_elem_id, new_elements, new_nodes and discretization_map.
RECURSIVE discretize_loop(_, _, _, _)
discretize_loop(data, ratio, k, acc) ==
    IF k > Len(data.elements) THEN acc
    ELSE LET elem == data.elements[k] IN
         IF ~is_beam_column(elem)
         THEN discretize_loop(data, ratio, k + 1,
                              [acc EXCEPT !.new_elements = Append(@, elem)])
         ELSE LET coords_i == node_lookup(data, elem.nodes[1])
                  coords_j == node_lookup(data, elem.nodes[2])
                  ndm == Len(coords_i)
                  ndf == data.model_info.ndf
                  internal ==
                      [q \in 1..(ratio - 1) |->
                          [id |-> acc.next_node_id + q - 1,
                           coords |-> [d \in 1..ndm |->
                               coords_i[d] + (q * (coords_j[d] - coords_i[d])) \div ratio],
                           fixity |-> [f \in 1..ndf |-> 0]]]
                  chain_node_ids ==
                      <<elem.nodes[1]>> \o [q \in 1..(ratio - 1) |-> internal[q].id]
                          \o <<elem.nodes[2]>>
                  subs ==
                      [q \in 1..ratio |->
                          [id |-> acc.next_elem_id + q - 1,
                           type |-> "elasticBeamColumn",
                           nodes |-> sub_nodes(chain_node_ids, q),
                           section_id |-> elem.section_id,
                           transform |-> elem.transform]]
              IN discretize_loop(data, ratio, k + 1,
                     [next_node_id |-> acc.next_node_id + (ratio - 1),
                      next_elem_id |-> acc.next_elem_id + ratio,
                      new_elements |-> acc.new_elements \o subs,
                      new_nodes |-> acc.new_nodes \o internal,
                      discretization_map |-> acc.discretization_map \cup
                          {[elem_id |-> elem.id, node_chain |-> chain_node_ids,
                            sub_element_ids |-> [q \in 1..ratio |-> subs[q].id]]}])

discretize_elements(model_data, ratio) ==
    IF ratio < 2
    THEN [data |-> model_data, discretization_map |-> {}, internal_nodes |-> <<>>]
    ELSE LET all_node_ids == SelectSeqIds(model_data.nodes)
             all_elem_ids == SelectSeqIds(model_data.elements)
             bearing_tags == {BearingTagOffset + b.id : b \in Range(model_data.bearings)}
             acc0 == [next_node_id |-> IF all_node_ids = {} THEN 1
                                       ELSE Max(all_node_ids) + 1,
                      next_elem_id |-> first_new_elem_id(all_elem_ids, bearing_tags),
                      new_elements |-> <<>>, new_nodes |-> <<>>,
                      discretization_map |-> {}]
             acc == discretize_loop(model_data, ratio, 1, acc0)
         IN [data |-> [model_data EXCEPT !.nodes = @ \o acc.new_nodes,
                                         !.elements = acc.new_elements],
             discretization_map |-> acc.discretization_map,
             internal_nodes |-> acc.new_nodes]

\* ---------------------------------------------------------- model queries

has_bearings(data) == Len(data.bearings) > 0

\* `fixity and all(f_val == 1 for f_val in fixity)`
is_fixed(node) ==
    Len(node.fixity) > 0 /\ \A k \in 1..Len(node.fixity) : node.fixity[k] = 1

free_nodes(data) == {n \in Range(data.nodes) : ~is_fixed(n)}

\* ------------------------------------------------------------------- state

VARIABLES
    pc,               \* position of the running invocation ("idle" when none runs)
    kind,             \* which run_* function is running
    model_data,       \* the caller's model object
    data,             \* the local model_data after _discretize_elements
    num_steps,        \* the num_steps argument (time-history, pushover)
    alg,              \* the domain's active solution algorithm
    first,            \* first solver call of the invocation
    last,             \* latest solver call of the invocation
    actx,             \* which ladder the current step attempt runs
    rung,             \* next rung of that ladder (1 = first analyze call)
    tried,            \* analyze calls of the current step attempt: <<algorithm, ok>>
    res,              \* result of the latest step attempt: "none", "ok", "fail"
    gravity_result,   \* value returned by the gravity stage
    step,             \* loop variable of the running stepping loop
    i,                \* loop variable of the first-level sub-step loop
    failed_sub,       \* failed_sub of run_time_history
    n_sub2,           \* n_sub2 of run_time_history
    j,                \* loop variable of the second-level sub-step loop
    step_dt,          \* increment passed to the latest analyze call
    counted,          \* the solver counts the ops.analyze calls it receives
    n_analyze,        \* counted ops.analyze calls of the current outer step
    t,                \* the domain's committed time / control displacement
    broke,            \* the stepping loop was left by break
    time_vals,        \* time_vals of run_time_history
    capacity_curve,   \* capacity_curve of run_pushover_analysis
    element_forces,   \* element_forces of run_static_analysis / run_pushover_analysis
    element_force_history,  \* element_force_history of run_time_history
    bearing_resp_history,   \* bearing_resp_history of run_time_history
    node_disp_history,      \* node_disp_history of run_time_history
    faults,           \* number of eleResponse calls that raised so far
    qfail,            \* which queries raised: <<tag, index in time_vals (0: final)>>
    queried,          \* eleResponse requests of this invocation: <<tag, response>>
    err,              \* the exception being propagated, "none" if none
    outcome,          \* how control left the function: "returned" / "raised"
    loop,             \* SpecApi: the request whose coroutine holds the event loop
    req,              \* SpecApi: per request, its handler's position and data
    owner,            \* SpecApi: the invocation that last wiped the domain on entry
    store,            \* SpecApi: the analysis store
    heap,             \* SpecPure: the model objects, by address
    p_pc,             \* SpecPure: "input", "called" or "changed"
    p_fn,             \* SpecPure: the function that was called
    p_arg,            \* SpecPure: its argument besides the model
    p_ret,            \* SpecPure: what it returned
    p_before          \* SpecPure: the caller's model as it was before the call

orchVars ==
    <<pc, kind, model_data, data, num_steps, alg, first, last, actx, rung, tried, res,
      gravity_result, step, i, failed_sub, n_sub2, j, step_dt, counted, n_analyze, t,
      broke,
      time_vals,
      capacity_curve, element_forces, element_force_history, bearing_resp_history,
      node_disp_history, faults, qfail, queried, err, outcome>>

apiVars == <<loop, req, owner, store>>

pureVars == <<heap, p_pc, p_fn, p_arg, p_ret, p_before>>

vars == <<orchVars, apiVars, pureVars>>

Kinds == {"static", "modal", "time_history", "pushover"}

NoModel == Model("none", <<>>, <<>>, <<>>)

\* State of the caller between two invocations.
OrchIdle ==
    /\ pc = "idle" /\ kind = "none" /\ model_data = NoModel /\ data = NoModel
    /\ counted = FALSE
    /\ num_steps = 0 /\ alg = "none" /\ first = "none" /\ last = "none"
    /\ actx = "none" /\ rung = 0 /\ tried = <<>> /\ res = "none"
    /\ gravity_result = 0 /\ step = 0 /\ i = 0 /\ failed_sub = 0 /\ n_sub2 = 0
    /\ j = 0 /\ step_dt = 0 /\ n_analyze = 0 /\ t = 0 /\ broke = FALSE
    /\ time_vals = <<>>
    /\ capacity_curve = <<>> /\ element_forces = <<>>
    /\ element_force_history = <<>> /\ bearing_resp_history = <<>>
    /\ node_disp_history = <<>>
    /\ faults = 0 /\ qfail = {} /\ queried = {} /\ err = "none" /\ outcome = "none"

Requests == 1..MaxRequests

NoRequest ==
    [pc |-> "none", endpoint |-> "none", type |-> "none", runs |-> 0, calls |-> 0]

NoEntry == [status |-> "none", results |-> FALSE, error |-> FALSE]

ApiIdle ==
    /\ loop = 0
    /\ req = [r \in Requests |-> NoRequest]
    /\ owner = 0
    /\ store = [r \in Requests |-> NoEntry]

\* No pure function is being exercised.
PureIdle ==
    /\ heap = <<NoModel, NoModel>> /\ p_pc = "idle" /\ p_fn = "none"
    /\ p_arg = 0 /\ p_ret = [ref |-> 0] /\ p_before = NoModel

\* ----------------------------------------------------- the solver domain

\* Outcome of one ops.eleResponse(eid, "force") call wrapped in its
\* try/except of run_static_analysis and run_pushover_analysis.
element_force_or_default(raised) ==
    IF raised THEN <<>> ELSE [c \in 1..NComp |-> c]

\* force_vals of the per-step element query of run_time_history.
step_force_vals(raised) ==
    IF raised THEN <<>> ELSE [c \in 1..NComp |-> c]

\* Variant: a step whose query raised is skipped for that element.
record_element_skipping(ehist, force_vals, n_time) ==
    IF force_vals = <<>> THEN ehist
    ELSE [c \in 1..(IF Len(force_vals) > Len(ehist) THEN Len(force_vals) ELSE Len(ehist)) |->
            IF c <= Len(ehist)
            THEN Append(ehist[c], IF c <= Len(force_vals) THEN force_vals[c] ELSE 0)
            ELSE [q \in 1..(n_time - 1) |-> 0] \o <<force_vals[c]>>]

\* The update of one element's ehist in run_time_history; n_time is
\* len(time_vals) after the append of the step.
record_element(ehist, force_vals, n_time) ==
    [c \in 1..(IF Len(force_vals) > Len(ehist) THEN Len(force_vals) ELSE Len(ehist)) |->
        IF c <= Len(ehist)
        THEN Append(ehist[c], IF c <= Len(force_vals) THEN force_vals[c] ELSE 0)
        ELSE [q \in 1..(n_time - 1) |-> 0] \o <<force_vals[c]>>]

\* Variant: only the series of the first DOF grows.
record_node_first_dof(nhist, ndf) ==
    [dof \in 1..ndf |-> IF dof = 1 THEN Append(nhist[dof], dof) ELSE nhist[dof]]

\* The appends to one free node's series at one step of run_time_history;
\* ops.nodeDisp(nid, dof) answers dof.
record_node(nhist, ndf) == [dof \in 1..ndf |-> Append(nhist[dof], dof)]

\* The six values appended for one bearing at one step of run_time_history:
\* basicDisplacement <<1, 2, 3>> and basicForce <<4, 5, 6>> when both
\* queries answer, zeros when either raises.
bearing_step_values(raised) ==
    IF raised
    THEN [displacement_x |-> 0, displacement_y |-> 0, displacement_z |-> 0,
          force_x |-> 0, force_y |-> 0, axial_force |-> 0]
    ELSE [displacement_x |-> 1, displacement_y |-> 2, displacement_z |-> 3,
          force_x |-> 4, force_y |-> 5, axial_force |-> 6]

BearingKeys ==
    {"displacement_x", "displacement_y", "displacement_z", "force_x", "force_y",
     "axial_force"}

ElementTags(d) == SelectSeqIds(d.elements)

BearingTags(d) == {BearingTagOffset + b.id : b \in Range(d.bearings)}

\* The response named in `ops.eleResponse(eid, "force")`, the element query
\* of run_static_analysis, run_time_history and run_pushover_analysis.
element_response == "force"

\* The eleResponse requests one pass over model_data["elements"] makes.
element_requests(d) == {<<e, element_response>> : e \in ElementTags(d)}

\* The eleResponse requests one pass over model_data["bearings"] makes;
\* after a raising displacement query the force query is not made.
bearing_requests(d, F) ==
    {<<b, "basicDisplacement">> : b \in BearingTags(d)}
    \cup {<<b, "basicForce">> : b \in BearingTags(d) \ F}

\* The sets of queries that may raise in one recording pass.
FaultSets(tags) == {F \in SUBSET tags : Cardinality(F) + faults <= MaxFaults}

\* ------------------------------------------------------ the retry ladders

\* Number of algorithms a step attempt may use, by the place of the attempt.
gravity_main_ladder == 3
gravity_mini_ladder == 2

\* Variant: _analyze_step tries KrylovNewton whatever use_extended_fallback is.
analyze_step_always_extended(use_extended_fallback) == 3

analyze_step_ladder(use_extended_fallback) == IF use_extended_fallback THEN 3 ELSE 2

\* Variant: the pushover loop gives up after ModifiedNewton.
pushover_ladder_short == gravity_mini_ladder

pushover_ladder == 3

\* Variant: the loop carries on and records the failed step.
th_failed_step_continue == "th_record"

\* Where run_time_history goes when a step has failed every recovery
\* attempt: break, then the return statement.
th_after_failed_step == "finally"

\* Variant: Newton is not restored after the KrylovNewton rung.
algorithm_not_restored(r, current) ==
    IF r = 1 THEN current ELSE IF r = 2 THEN "Newton" ELSE "KrylovNewton"

\* The algorithm active after the analyze call of a rung: the first rung
\* leaves it alone, the fallback rungs restore the primary one.
algorithm_after(r, current) == IF r = 1 THEN current ELSE "Newton"

\* The algorithm an analyze call of rung r runs with.
algorithm_of(r, current) ==
    IF r = 1 THEN current ELSE IF r = 2 THEN "ModifiedNewton" ELSE "KrylovNewton"

\* The count of ops.analyze calls after one more call, when calls are
\* counted (as the call_count of the tests' mock solver): it restarts with
\* the first call of an outer step.
call_count(fresh) ==
    IF ~counted THEN 0 ELSE IF fresh THEN 1 ELSE n_analyze + 1

\* The positions at which an outer step of a stepping loop begins.
OuterSteps == {"g_main", "th_main", "po_step"}

\* One ops.analyze call of the step attempt at pc, of a ladder of len rungs.
AnalyzeCall(ok, len, dt) ==
    /\ tried' = (IF rung = 1 THEN <<>> ELSE tried) \o <<<<algorithm_of(rung, alg), ok>>>>
    /\ alg' = algorithm_after(rung, alg)
    /\ actx' = pc
    /\ step_dt' = dt
    /\ n_analyze' = call_count(rung = 1 /\ pc \in OuterSteps)
    /\ res' = IF ok THEN "ok" ELSE IF rung = len THEN "fail" ELSE "none"
    /\ rung' = IF ok \/ rung = len THEN 1 ELSE rung + 1

\* n_sub1 of run_time_history.
n_sub1(d) == IF Len(d.bearings) > ManyBearingsCutoff THEN NSub1Many ELSE NSub1Few

\* Variant: the failed sub-step itself is not retried.
n_sub2_skipping_failed(n1, failed) ==
    LET remaining == n1 - failed - 1 IN
    IF remaining * SubFactor > 1 THEN remaining * SubFactor ELSE 1

\* Variant: the whole step is repeated at the second level.
n_sub2_whole_step(n1, failed) == n1 * SubFactor

\* n_sub2 of run_time_history, from the index of the failed sub-step.
n_sub2_of(n1, failed) ==
    LET remaining == n1 - failed IN
    IF remaining * SubFactor > 1 THEN remaining * SubFactor ELSE 1

\* Variant: run_static_analysis only logs a failed preload, as the other
\* three functions do.
after_gravity_unchecked(k, result) ==
    CASE k = "static" -> [pc |-> "gather", err |-> "none"]
      [] k = "modal" -> [pc |-> "eigen", err |-> "none"]
      [] k = "time_history" -> [pc |-> "th_setup", err |-> "none"]
      [] k = "pushover" -> [pc |-> "po_setup", err |-> "none"]

\* Variant: every run_* function raises on a failed gravity stage.
after_gravity_fatal(k, result) ==
    IF result # 0 THEN [pc |-> "finally", err |-> "converge"]
    ELSE after_gravity_unchecked(k, result)

\* Where control goes when the gravity stage of a run_* function has
\* returned `result`.
after_gravity(k, result) ==
    CASE k = "static" ->
            IF result # 0 THEN [pc |-> "finally", err |-> "converge"]
            ELSE [pc |-> "gather", err |-> "none"]
      [] k = "modal" -> [pc |-> "eigen", err |-> "none"]
      [] k = "time_history" -> [pc |-> "th_setup", err |-> "none"]
      [] k = "pushover" -> [pc |-> "po_setup", err |-> "none"]

\* Variant: the closing wipe is the last statement of the try body, not a
\* finally block.
last_call_without_finally(e, previous) == IF e = "none" THEN "wipe" ELSE previous

\* The latest solver call once the finally block of a run_* function has run.
last_call_on_exit(e, previous) == "wipe"

\* ------------------------------------------- entry, model build and exit

ladderVars == <<actx, rung, tried, res, step_dt, n_analyze>>
loopVars == <<step, i, failed_sub, n_sub2, j, t, broke>>
resultVars ==
    <<time_vals, capacity_curve, element_forces, element_force_history,
      bearing_resp_history, node_disp_history>>
faultVars == <<faults, qfail, queried>>
callVars == <<kind, model_data, num_steps, counted>>

\* A caller enters run_static_analysis, run_modal_analysis, run_time_history
\* or run_pushover_analysis; the function's first statement is ops.wipe().
CallWith(k, m, n, c) ==
    /\ pc = "idle"
    /\ pc' = "build"
    /\ kind' = k
    /\ model_data' = m
    /\ num_steps' = n
    /\ counted' = c
    /\ first' = "wipe"
    /\ last' = "wipe"
    /\ alg' = "none"
    /\ UNCHANGED <<data, gravity_result, err, outcome>>
    /\ UNCHANGED <<ladderVars, loopVars, resultVars, faultVars, apiVars, pureVars>>

Call(k, m, n) == CallWith(k, m, n, FALSE)

\* The same call of a one-step run on a solver that counts analyze calls.
CountedCall(k, m) == CallWith(k, m, IF k \in {"time_history", "pushover"} THEN 1 ELSE 0, TRUE)

\* _discretize_elements, build_model and (all but static) _assign_mass;
\* for pushover also the search for free nodes.  A solver command of
\* build_model may raise.
Build(built) ==
    /\ pc = "build"
    /\ LET d == discretize_elements(model_data, DefaultRatio).data
           nofree == built /\ kind = "pushover" /\ free_nodes(d) = {}
       IN /\ data' = d
          /\ err' = IF ~built THEN "build" ELSE IF nofree THEN "nofree" ELSE "none"
          /\ pc' = IF ~built \/ nofree THEN "finally"
                   ELSE IF has_bearings(d) THEN "gravity"
                   ELSE CASE kind = "static" -> "static_step"
                          [] kind = "modal" -> "eigen"
                          [] kind = "time_history" -> "th_setup"
                          [] kind = "pushover" -> "po_gravity"
    /\ last' = IF built THEN "build" ELSE "model"
    /\ UNCHANGED <<alg, first, gravity_result, outcome>>
    /\ UNCHANGED <<callVars, ladderVars, loopVars, resultVars, faultVars, apiVars, pureVars>>

\* The finally block, then control leaves the function.
Finally ==
    /\ pc = "finally"
    /\ pc' = "done"
    /\ last' = last_call_on_exit(err, last)
    /\ alg' = IF last_call_on_exit(err, last) = "wipe" THEN "none" ELSE alg
    /\ outcome' = IF err = "none" THEN "returned" ELSE "raised"
    /\ UNCHANGED <<data, first, gravity_result, err>>
    /\ UNCHANGED <<callVars, ladderVars, loopVars, resultVars, faultVars, apiVars, pureVars>>

\* The caller has taken the result or the exception.
Leave ==
    /\ pc = "done"
    /\ pc' = "idle" /\ kind' = "none" /\ model_data' = NoModel /\ data' = NoModel
    /\ counted' = FALSE
    /\ num_steps' = 0 /\ alg' = "none" /\ first' = "none" /\ last' = "none"
    /\ actx' = "none" /\ rung' = 0 /\ tried' = <<>> /\ res' = "none"
    /\ gravity_result' = 0 /\ step' = 0 /\ i' = 0 /\ failed_sub' = 0 /\ n_sub2' = 0
    /\ j' = 0 /\ step_dt' = 0 /\ n_analyze' = 0 /\ t' = 0 /\ broke' = FALSE
    /\ time_vals' = <<>>
    /\ capacity_curve' = <<>> /\ element_forces' = <<>>
    /\ element_force_history' = <<>> /\ bearing_resp_history' = <<>>
    /\ node_disp_history' = <<>>
    /\ faults' = 0 /\ qfail' = {} /\ queried' = {} /\ err' = "none" /\ outcome' = "none"
    /\ UNCHANGED <<apiVars, pureVars>>

\* ------------------------------------------------- _run_gravity_preload

\* Pattern, loads and analysis configuration of _run_gravity_preload.
GravitySetup ==
    /\ pc = "gravity"
    /\ pc' = "g_main"
    /\ alg' = "Newton"
    /\ last' = "config"
    /\ rung' = 1
    /\ step' = 0
    /\ n_analyze' = 0
    /\ UNCHANGED <<data, first, gravity_result, err, outcome, actx, tried, res, step_dt>>
    /\ UNCHANGED <<i, failed_sub, n_sub2, j, t, broke>>
    /\ UNCHANGED <<callVars, resultVars, faultVars, apiVars, pureVars>>

\* One analyze call of a load increment of size dLambda; t counts the load
\* factor reached, in units of dLambda / 10.
GravMain(ok) ==
    /\ pc = "g_main"
    /\ AnalyzeCall(ok, gravity_main_ladder, MiniSteps)
    /\ LET finished == ok /\ step + 1 = GravitySteps
       IN /\ pc' = IF finished THEN "g_hold"
                   ELSE IF ~ok /\ rung = gravity_main_ladder THEN "g_mini" ELSE pc
          /\ step' = IF finished THEN 0 ELSE IF ok THEN step + 1 ELSE step
    /\ t' = IF ok THEN t + MiniSteps ELSE t
    /\ last' = "analyze"
    /\ i' = 0
    /\ gravity_result' = 0
    /\ UNCHANGED <<data, first, err, outcome, failed_sub, n_sub2, j, broke>>
    /\ UNCHANGED <<callVars, resultVars, faultVars, apiVars, pureVars>>

\* Variant: the mini-step loop stops one mini-step short.
mini_loop_short(ok, sub) == ok /\ sub + 1 = MiniSteps - 1

\* `for _sub in range(10)` is over after the converged mini-step sub.
mini_loop_done(ok, sub) == ok /\ sub + 1 = MiniSteps

\* One analyze call of a mini-step of size dLambda / 10.
GravMini(ok) ==
    /\ pc = "g_mini"
    /\ AnalyzeCall(ok, gravity_mini_ladder, 1)
    /\ LET increment_done == mini_loop_done(ok, i)
           finished == increment_done /\ step + 1 = GravitySteps
           failed == ~ok /\ rung = gravity_mini_ladder
           next == after_gravity(kind, -3)
       IN /\ pc' = IF failed THEN next.pc
                   ELSE IF finished THEN "g_hold"
                   ELSE IF increment_done THEN "g_main" ELSE pc
          /\ err' = IF failed THEN next.err ELSE err
          /\ gravity_result' = IF failed THEN -3 ELSE 0
          /\ step' = IF finished \/ failed THEN 0
                     ELSE IF increment_done THEN step + 1 ELSE step
          /\ i' = IF ok /\ ~increment_done THEN i + 1 ELSE IF ok \/ failed THEN 0 ELSE i
          /\ last' = IF increment_done \/ failed THEN "integrator" ELSE "analyze"
    /\ t' = IF ok THEN t + 1 ELSE t
    /\ UNCHANGED <<data, first, outcome, failed_sub, n_sub2, j, broke>>
    /\ UNCHANGED <<callVars, resultVars, faultVars, apiVars, pureVars>>

\* After the last increment: ops.loadConst("-time", 0.0) and return 0.
GravHold ==
    /\ pc = "g_hold"
    /\ LET next == after_gravity(kind, 0)
       IN pc' = next.pc /\ err' = next.err
    /\ last' = "loadConst"
    /\ t' = 0
    /\ gravity_result' = 0
    /\ UNCHANGED <<data, alg, first, outcome, step, i, failed_sub, n_sub2, j, broke>>
    /\ UNCHANGED <<callVars, ladderVars, resultVars, faultVars, apiVars, pureVars>>

\* ------------------------------------------------- run_static_analysis

\* Single-step gravity of a model without bearings: pattern, loads,
\* configuration and the one analyze call; a failure raises RuntimeError.
StaticStep(ok) ==
    /\ pc = "static_step"
    /\ pc' = IF ok THEN "gather" ELSE "finally"
    /\ err' = IF ok THEN "none" ELSE "converge"
    /\ alg' = "Newton"
    /\ last' = "analyze"
    /\ actx' = pc
    /\ tried' = <<<<"Newton", ok>>>>
    /\ res' = IF ok THEN "ok" ELSE "fail"
    /\ rung' = 1
    /\ step_dt' = MiniSteps * GravitySteps
    /\ n_analyze' = call_count(TRUE)
    /\ gravity_result' = IF ok THEN 0 ELSE -1
    /\ UNCHANGED <<data, first, outcome>>
    /\ UNCHANGED <<callVars, loopVars, resultVars, faultVars, apiVars, pureVars>>

\* Displacements, reactions and element forces after a converged gravity
\* stage; the queries of the elements in F raise.
StaticGather(F) ==
    /\ pc = "gather"
    /\ pc' = "finally"
    /\ last' = "query"
    /\ element_forces' = [e \in ElementTags(data) |-> element_force_or_default(e \in F)]
    /\ faults' = faults + Cardinality(F)
    /\ qfail' = qfail \cup {<<e, 0>> : e \in F}
    /\ queried' = queried \cup element_requests(data)
    /\ UNCHANGED <<data, alg, first, gravity_result, err, outcome>>
    /\ UNCHANGED <<time_vals, capacity_curve, element_force_history, bearing_resp_history,
                 node_disp_history>>
    /\ UNCHANGED <<callVars, ladderVars, loopVars, apiVars, pureVars>>

\* -------------------------------------------------- run_modal_analysis

\* ops.eigen and the queries of the mode shapes.
ModalEigen ==
    /\ pc = "eigen"
    /\ pc' = "finally"
    /\ last' = "eigen"
    /\ UNCHANGED <<data, alg, first, gravity_result, err, outcome>>
    /\ UNCHANGED <<callVars, ladderVars, loopVars, resultVars, faultVars, apiVars, pureVars>>

\* ---------------------------------------------------- run_time_history

EmptyBearingHistory ==
    [displacement_x |-> <<>>, displacement_y |-> <<>>, displacement_z |-> <<>>,
     force_x |-> <<>>, force_y |-> <<>>, axial_force |-> <<>>]

\* wipeAnalysis, ground motion, damping, analysis configuration and the
\* result containers.
ThSetup ==
    /\ pc = "th_setup"
    /\ pc' = "th_main"
    /\ alg' = "Newton"
    /\ last' = "config"
    /\ rung' = 1
    /\ step' = 0
    /\ t' = 0
    /\ time_vals' = <<>>
    /\ element_force_history' = [e \in ElementTags(data) |-> <<>>]
    /\ bearing_resp_history' = [b \in BearingTags(data) |-> EmptyBearingHistory]
    /\ node_disp_history' =
          [nid \in {n.id : n \in free_nodes(data)} |->
              [dof \in 1..data.model_info.ndf |-> <<>>]]
    /\ n_analyze' = 0
    /\ UNCHANGED <<data, first, gravity_result, err, outcome, actx, tried, res, step_dt>>
    /\ UNCHANGED <<i, failed_sub, n_sub2, j, broke, capacity_curve, element_forces>>
    /\ UNCHANGED <<callVars, faultVars, apiVars, pureVars>>

\* One analyze call of _analyze_step(dt, has_bearings) for a whole step.
ThMain(ok) ==
    /\ pc = "th_main"
    /\ LET len == analyze_step_ladder(has_bearings(data))
           failed == ~ok /\ rung = len
       IN /\ AnalyzeCall(ok, len, DT)
          /\ pc' = IF ok THEN "th_record"
                   ELSE IF ~failed THEN pc
                   ELSE IF has_bearings(data) THEN "th_sub1" ELSE th_after_failed_step
          /\ broke' = (failed /\ ~has_bearings(data))
    /\ t' = IF ok THEN t + DT ELSE t
    /\ i' = 0
    /\ last' = "analyze"
    /\ UNCHANGED <<data, first, gravity_result, err, outcome, step, failed_sub, n_sub2, j>>
    /\ UNCHANGED <<callVars, resultVars, faultVars, apiVars, pureVars>>

\* One analyze call of a first-level sub-step of size dt / n_sub1.
ThSub1(ok) ==
    /\ pc = "th_sub1"
    /\ LET sub_dt == DT \div n_sub1(data)
           failed == ~ok /\ rung = analyze_step_ladder(TRUE)
       IN /\ AnalyzeCall(ok, analyze_step_ladder(TRUE), sub_dt)
          /\ pc' = IF ok /\ i + 1 = n_sub1(data) THEN "th_record"
                   ELSE IF failed THEN "th_sub2" ELSE pc
          /\ i' = IF ok THEN i + 1 ELSE i
          /\ failed_sub' = IF failed THEN i ELSE failed_sub
          /\ n_sub2' = IF failed THEN n_sub2_of(n_sub1(data), i) ELSE n_sub2
          /\ t' = IF ok THEN t + sub_dt ELSE t
    /\ j' = 0
    /\ last' = "analyze"
    /\ UNCHANGED <<data, first, gravity_result, err, outcome, step, broke>>
    /\ UNCHANGED <<callVars, resultVars, faultVars, apiVars, pureVars>>

\* One analyze call of a second-level sub-step of size dt / (n_sub1 * 5).
ThSub2(ok) ==
    /\ pc = "th_sub2"
    /\ LET sub_dt2 == (DT \div n_sub1(data)) \div SubFactor
           failed == ~ok /\ rung = analyze_step_ladder(TRUE)
       IN /\ AnalyzeCall(ok, analyze_step_ladder(TRUE), sub_dt2)
          /\ pc' = IF ok /\ j + 1 = n_sub2 THEN "th_record"
                   ELSE IF failed THEN th_after_failed_step ELSE pc
          /\ j' = IF ok THEN j + 1 ELSE j
          /\ broke' = failed
          /\ t' = IF ok THEN t + sub_dt2 ELSE t
    /\ last' = "analyze"
    /\ UNCHANGED <<data, first, gravity_result, err, outcome, step, i, failed_sub, n_sub2>>
    /\ UNCHANGED <<callVars, resultVars, faultVars, apiVars, pureVars>>

\* The recording of a converged step: time, node displacements, element
\* forces and bearing responses; the queries of the tags in F raise.
ThRecord(F) ==
    /\ pc = "th_record"
    /\ LET current_time == (IF time_vals = <<>> THEN 0 ELSE time_vals[Len(time_vals)]) + DT
           n_time == Len(time_vals) + 1
       IN /\ time_vals' = Append(time_vals, current_time)
          /\ element_force_history' =
                [e \in ElementTags(data) |->
                    record_element(element_force_history[e], step_force_vals(e \in F),
                                   n_time)]
          /\ bearing_resp_history' =
                [b \in BearingTags(data) |->
                    [key \in BearingKeys |->
                        Append(bearing_resp_history[b][key],
                               bearing_step_values(b \in F)[key])]]
          /\ qfail' = qfail \cup {<<x, n_time>> : x \in F}
          /\ queried' = queried \cup element_requests(data) \cup bearing_requests(data, F)
    /\ node_disp_history' =
          [nid \in DOMAIN node_disp_history |->
              record_node(node_disp_history[nid], data.model_info.ndf)]
    /\ faults' = faults + Cardinality(F)
    /\ step' = step + 1
    /\ pc' = IF step + 1 = num_steps THEN "finally" ELSE "th_main"
    /\ i' = 0
    /\ j' = 0
    /\ failed_sub' = 0
    /\ n_sub2' = 0
    /\ last' = "query"
    /\ UNCHANGED <<data, alg, first, gravity_result, err, outcome, t, broke>>
    /\ UNCHANGED <<capacity_curve, element_forces>>
    /\ UNCHANGED <<callVars, actx, rung, tried, res, step_dt, apiVars, pureVars>>
    /\ n_analyze' = 0

\* ----------------------------------------------- run_pushover_analysis

\* Single-step gravity of a model without bearings; its result is only
\* logged, then the loads are held constant.
PoGravity(ok) ==
    /\ pc = "po_gravity"
    /\ pc' = "po_setup"
    /\ alg' = "Newton"
    /\ last' = "loadConst"
    /\ actx' = pc
    /\ tried' = <<<<"Newton", ok>>>>
    /\ res' = IF ok THEN "ok" ELSE "fail"
    /\ rung' = 1
    /\ step_dt' = MiniSteps * GravitySteps
    /\ n_analyze' = call_count(TRUE)
    /\ gravity_result' = IF ok THEN 0 ELSE -1
    /\ UNCHANGED <<data, first, err, outcome>>
    /\ UNCHANGED <<callVars, loopVars, resultVars, faultVars, apiVars, pureVars>>

\* Lateral load pattern and displacement-control configuration.
PoSetup ==
    /\ pc = "po_setup"
    /\ pc' = "po_step"
    /\ alg' = "Newton"
    /\ last' = "config"
    /\ rung' = 1
    /\ step' = 0
    /\ t' = 0
    /\ capacity_curve' = <<>>
    /\ n_analyze' = 0
    /\ UNCHANGED <<data, first, gravity_result, err, outcome, actx, tried, res, step_dt>>
    /\ UNCHANGED <<i, failed_sub, n_sub2, j, broke>>
    /\ UNCHANGED <<time_vals, element_forces, element_force_history, bearing_resp_history,
                 node_disp_history>>
    /\ UNCHANGED <<callVars, faultVars, apiVars, pureVars>>

\* One analyze call of a displacement increment dU (one unit of t); a
\* converged increment is followed by the capacity-curve point.
PoStep(ok) ==
    /\ pc = "po_step"
    /\ LET failed == ~ok /\ rung = pushover_ladder
       IN /\ AnalyzeCall(ok, pushover_ladder, 1)
          /\ pc' = IF failed \/ (ok /\ step + 1 = num_steps) THEN "po_final" ELSE pc
          /\ broke' = failed
    /\ t' = IF ok THEN t + 1 ELSE t
    /\ step' = IF ok THEN step + 1 ELSE step
    /\ capacity_curve' =
          IF ok THEN Append(capacity_curve, [step |-> step, roof_displacement |-> t + 1])
          ELSE capacity_curve
    /\ last' = IF ok THEN "query" ELSE "analyze"
    /\ UNCHANGED <<data, first, gravity_result, err, outcome, i, failed_sub, n_sub2, j>>
    /\ UNCHANGED <<time_vals, element_forces, element_force_history, bearing_resp_history,
                 node_disp_history>>
    /\ UNCHANGED <<callVars, faultVars, apiVars, pureVars>>

\* Final-state displacements, reactions and element forces; the queries
\* of the elements in F raise.
PoFinal(F) ==
    /\ pc = "po_final"
    /\ pc' = "finally"
    /\ last' = "query"
    /\ element_forces' = [e \in ElementTags(data) |-> element_force_or_default(e \in F)]
    /\ faults' = faults + Cardinality(F)
    /\ qfail' = qfail \cup {<<e, 0>> : e \in F}
    /\ queried' = queried \cup element_requests(data)
    /\ UNCHANGED <<data, alg, first, gravity_result, err, outcome>>
    /\ UNCHANGED <<time_vals, capacity_curve, element_force_history, bearing_resp_history,
                 node_disp_history>>
    /\ UNCHANGED <<callVars, ladderVars, loopVars, apiVars, pureVars>>

\* ------------------------------------------------------ returned results

\* Variant: the returned dict carries a flag telling whether the stepping
\* loop stopped early.
th_result_flagged(tv, ndh, efh, brh, dmap, stopped) ==
    [time |-> tv, node_displacements |-> ndh, element_forces |-> efh,
     bearing_responses |-> brh, discretization_map |-> dmap, partial |-> stopped]

\* The dict returned by run_time_history; `stopped` tells whether the
\* stepping loop was left by its break.
th_result(tv, ndh, efh, brh, dmap, stopped) ==
    [time |-> tv, node_displacements |-> ndh, element_forces |-> efh,
     bearing_responses |-> brh, discretization_map |-> dmap]

\* The dict returned by run_pushover_analysis.
po_result(cc, ef, dmap, stopped) ==
    [capacity_curve |-> cc,
     max_roof_displacement |->
        IF cc = <<>> THEN 0 ELSE Max({cc[k].roof_displacement : k \in 1..Len(cc)}),
     element_forces |-> ef, discretization_map |-> dmap]

\* What the running invocation hands to its caller when it returns.
returned_result ==
    LET dmap == discretize_elements(model_data, DefaultRatio).discretization_map
    IN CASE kind = "time_history" ->
              th_result(time_vals, node_disp_history, element_force_history,
                        bearing_resp_history, dmap, broke)
         [] kind = "pushover" -> po_result(capacity_curve, element_forces, dmap, broke)
         [] OTHER -> [element_forces |-> element_forces, discretization_map |-> dmap]

\* ------------------------------------------------------- specification

StepCounts(k) == IF k \in {"time_history", "pushover"} THEN 1..MaxSteps ELSE {0}

Init == OrchIdle /\ ApiIdle /\ PureIdle

\* Every step of a running function.
Steps ==
    \/ \E built \in BOOLEAN : Build(built)
    \/ Finally
    \/ Leave
    \/ GravitySetup
    \/ \E ok \in BOOLEAN : GravMain(ok)
    \/ \E ok \in BOOLEAN : GravMini(ok)
    \/ GravHold
    \/ \E ok \in BOOLEAN : StaticStep(ok)
    \/ \E F \in FaultSets(ElementTags(data)) : StaticGather(F)
    \/ ModalEigen
    \/ ThSetup
    \/ \E ok \in BOOLEAN : ThMain(ok)
    \/ \E ok \in BOOLEAN : ThSub1(ok)
    \/ \E ok \in BOOLEAN : ThSub2(ok)
    \/ \E F \in FaultSets(ElementTags(data) \cup BearingTags(data)) : ThRecord(F)
    \/ \E ok \in BOOLEAN : PoGravity(ok)
    \/ PoSetup
    \/ \E ok \in BOOLEAN : PoStep(ok)
    \/ \E F \in FaultSets(ElementTags(data)) : PoFinal(F)

Next ==
    \/ \E k \in Kinds, m \in Models : \E n \in StepCounts(k) : Call(k, m, n)
    \/ Steps

Spec == Init /\ [][Next]_vars

NextCount ==
    \/ \E k \in Kinds, m \in Models : CountedCall(k, m)
    \/ Steps

SpecCount == Init /\ [][NextCount]_vars

\* -------------------------------------------- the HTTP request handlers

\* Variant: the handlers await between the solver calls of an invocation.
await_while_solving == {"solving"}

\* Positions at which the coroutine of run_analysis or run_comparison
\* awaits, handing the event loop to another request: both handlers are
\* `async def` and call the solver functions directly, with no await.
await_points == {}

\* The request holding the event loop after request r has moved to `next`.
loop_after(r, next) == IF next \in await_points \cup {"responded"} THEN 0 ELSE r

\* Number of solver invocations the handler of a request makes when none
\* of them raises: one for /api/analysis/run; for /api/comparison/run the
\* isolated and fixed-base pushovers plus, with lambda factors, the upper-
\* and lower-bound pushovers.
invocations(endpoint, lambda_factors) ==
    IF endpoint = "analysis" THEN 1 ELSE IF lambda_factors THEN 4 ELSE 2

\* The domain's owner after request r has made a solver call on a domain
\* owned by `current`: -1 once calls of two invocations have interleaved.
owner_after_call(current, r) == IF current = r THEN r ELSE -1

\* A request reaches the server and its handler coroutine is scheduled.
Arrive(r, endpoint, type) ==
    /\ req[r].pc = "none"
    /\ req' = [req EXCEPT ![r] =
                  [pc |-> "lookup", endpoint |-> endpoint, type |-> type,
                   runs |-> 0, calls |-> 0]]
    /\ UNCHANGED <<loop, owner, store, orchVars, pureVars>>

\* The idle event loop runs (or resumes) the coroutine of request r.
Dispatch(r) ==
    /\ loop = 0
    /\ req[r].pc \notin {"none", "responded"}
    /\ loop' = r
    /\ UNCHANGED <<req, owner, store, orchVars, pureVars>>

\* Model lookup (404 when unknown); run_analysis then marks its store
\* entry "running"; parameter errors and the time-history comparison raise
\* before any solver call.  known: the model is in the model store; valid:
\* the parameters the analysis type needs are given; lambda_factors: the
\* comparison request carries lambda factors.
HandlerLookup(r, known, valid, lambda_factors) ==
    /\ loop = r
    /\ req[r].pc = "lookup"
    /\ LET q == req[r]
           raises == ~valid \/ (q.endpoint = "comparison" /\ q.type = "time_history")
           next == IF ~known THEN "responded" ELSE IF raises THEN "failing" ELSE "enter"
       IN /\ req' = [req EXCEPT ![r].pc = next,
                                ![r].runs = IF next = "enter"
                                            THEN invocations(q.endpoint, lambda_factors)
                                            ELSE 0]
          /\ store' = IF known /\ q.endpoint = "analysis"
                      THEN [store EXCEPT ![r].status = "running"] ELSE store
          /\ loop' = loop_after(r, next)
    /\ UNCHANGED <<owner, orchVars, pureVars>>

\* The handler calls a run_* function, whose first statement wipes the domain.
Enter(r) ==
    /\ loop = r
    /\ req[r].pc = "enter"
    /\ req' = [req EXCEPT ![r].pc = "solving", ![r].calls = 0]
    /\ owner' = IF owner = 0 THEN r ELSE -1
    /\ loop' = loop_after(r, "solving")
    /\ UNCHANGED <<store, orchVars, pureVars>>

\* One solver call of the running invocation.
SolverCall(r) ==
    /\ loop = r
    /\ req[r].pc = "solving"
    /\ req[r].calls < MaxCalls
    /\ req' = [req EXCEPT ![r].calls = @ + 1]
    /\ owner' = owner_after_call(owner, r)
    /\ loop' = loop_after(r, "solving")
    /\ UNCHANGED <<store, orchVars, pureVars>>

\* The run_* function returns or raises; its finally block wipes the domain.
InvocationEnd(r, ok) ==
    /\ loop = r
    /\ req[r].pc = "solving"
    /\ LET next == IF ~ok THEN "failing"
                   ELSE IF req[r].runs > 1 THEN "enter" ELSE "succeeding"
       IN /\ req' = [req EXCEPT ![r].pc = next, ![r].runs = @ - 1]
          /\ loop' = loop_after(r, next)
    /\ owner' = IF owner = r THEN 0 ELSE -1
    /\ UNCHANGED <<store, orchVars, pureVars>>

\* Variant: the results are stored but the status is left as it was.
stored_outcome_keeping_status(entry, succeeded) ==
    IF succeeded THEN [entry EXCEPT !.results = TRUE] ELSE [entry EXCEPT !.error = TRUE]

\* The two `_analysis_store[analysis_id].update(...)` calls of run_analysis.
stored_outcome(entry, succeeded) ==
    IF succeeded THEN [entry EXCEPT !.status = "completed", !.results = TRUE]
    ELSE [entry EXCEPT !.status = "failed", !.error = TRUE]

\* The handler stores the outcome (run_analysis) and sends the response.
Respond(r) ==
    /\ loop = r
    /\ req[r].pc \in {"failing", "succeeding"}
    /\ req' = [req EXCEPT ![r].pc = "responded", ![r].runs = 0, ![r].calls = 0]
    /\ store' = IF req[r].endpoint # "analysis" THEN store
                ELSE [store EXCEPT ![r] = stored_outcome(@, req[r].pc = "succeeding")]
    /\ loop' = loop_after(r, "responded")
    /\ UNCHANGED <<owner, orchVars, pureVars>>

RequestTypes(endpoint) ==
    IF endpoint = "analysis" THEN Kinds ELSE {"pushover", "time_history"}

NextApi ==
    \/ \E r \in Requests, endpoint \in {"analysis", "comparison"} :
          \E type \in RequestTypes(endpoint) : Arrive(r, endpoint, type)
    \/ \E r \in Requests : Dispatch(r)
    \/ \E r \in Requests, known, valid, lambda_factors \in BOOLEAN :
          HandlerLookup(r, known, valid, lambda_factors)
    \/ \E r \in Requests : Enter(r)
    \/ \E r \in Requests : SolverCall(r)
    \/ \E r \in Requests, ok \in BOOLEAN : InvocationEnd(r, ok)
    \/ \E r \in Requests : Respond(r)

SpecApi == Init /\ [][NextApi]_vars

\* ------------------------------------------- inputs of the pure functions

TFPBearing(id, n1, n2) ==
    [id |-> id, nodes |-> <<n1, n2>>,
     friction_models |->
        <<[mu_slow |-> 12, mu_fast |-> 18, trans_rate |-> 4],
          [mu_slow |-> 18, mu_fast |-> 30, trans_rate |-> 4],
          [mu_slow |-> 18, mu_fast |-> 30, trans_rate |-> 4],
          [mu_slow |-> 12, mu_fast |-> 18, trans_rate |-> 4]>>,
     radii |-> <<16, 84, 16>>, disp_capacities |-> <<2, 20, 2>>, weight |-> 150]

Section(Iz, E, d) ==
    [id |-> 1, type |-> "WideFlange", properties |-> [Iz |-> Iz, E |-> E, d |-> d]]

Diaphragm(master, constrained) ==
    [perp_direction |-> 2, master_node_id |-> master, constrained_node_ids |-> constrained]

FullModel(nodes, elements, bearings, sections, diaphragms) ==
    [name |-> "input", model_info |-> [ndm |-> 2, ndf |-> 3],
     nodes |-> nodes, elements |-> elements, bearings |-> bearings,
     sections |-> sections, diaphragms |-> diaphragms,
     loads |-> <<[type |-> "nodal", node_id |-> 3, values |-> <<0, -10, 0>>]>>]

Fixities == {<<>>, <<0, 0, 0>>, <<1, 1, 0>>, <<1, 1, 1>>}

\* Three nodes: 1 below 2, 3 beside 2.
InputNodes ==
    {<<Node(1, <<0, 0>>, f1), Node(2, <<0, 60>>, f2), Node(3, <<120, 60>>, <<0, 0, 0>>)>> :
        f1 \in {<<1, 1, 1>>, <<1, 1, 0>>}, f2 \in Fixities}

ElemShapes ==
    {<<"elasticBeamColumn", 1, 2>>, <<"elasticBeamColumn", 2, 3>>, <<"truss", 1, 3>>,
     <<"zeroLength", 1, 2>>}

\* Element lists of up to MaxElems elements; the k-th element has id 3k and
\* section k, the first the Linear transform and the others PDelta.
InputElements ==
    UNION {{[k \in 1..n |->
                [Elem(3 * k, sh[k][1], sh[k][2], sh[k][3]) EXCEPT
                    !.section_id = k,
                    !.transform = IF k = 1 THEN "Linear" ELSE "PDelta"]] :
               sh \in [1..n -> ElemShapes]} : n \in 0..MaxElems}

InputBearings ==
    {<<>>, <<TFPBearing(1, 1, 2)>>, <<TFPBearing(1, 1, 2), TFPBearing(2, 1, 3)>>}

InputSections == {<<>>, <<Section(2, 200, 2)>>, <<Section(0, 200, 2)>>}

InputDiaphragms == {<<>>, <<Diaphragm(2, <<3>>)>>}

\* The models given to the pure functions: every combination of fixities,
\* elements, bearings and diaphragms with one section, and every
\* combination of elements and sections on one frame.
InputModels ==
    {FullModel(ns, es, bs, <<Section(2, 200, 2)>>, ds) :
        ns \in InputNodes, es \in InputElements, bs \in InputBearings,
        ds \in InputDiaphragms}
    \cup
    {FullModel(<<Node(1, <<0, 0>>, <<1, 1, 1>>), Node(2, <<0, 60>>, <<>>),
                 Node(3, <<120, 60>>, <<0, 0, 0>>)>>, es, <<>>, ss, <<>>) :
        es \in InputElements, ss \in InputSections}

Moments == (0..MaxMoment) \cup {-MaxMoment}

\* Force lists of one element: none, too short, one end, both ends.
ForceLists ==
    {<<>>, <<0, 0>>}
    \cup {<<0, 0, mi>> : mi \in Moments}
    \cup {<<0, 0, mi, 0, 0, mj>> : mi \in Moments, mj \in {0, MaxMoment}}
    \cup {<<0, 0, mi, 0, 0, mi>> : mi \in Moments}

Ratios == 1..MaxRatio

Factors == 1..MaxFactor

\* ------------------------------------- generate_fixed_base_variant, lambda

is_z_up(m) ==
    \/ ("z_up" \in DOMAIN m.model_info /\ m.model_info.z_up)
    \/ (m.model_info.ndm = 3 /\ Len(m.bearings) > 0)

\* variant.setdefault("model_info", {})["z_up"] = True
with_z_up(info) ==
    [key \in DOMAIN info \cup {"z_up"} |-> IF key = "z_up" THEN TRUE ELSE info[key]]

\* Variant: the bottom node of the bearing is taken.
bearing_bottom_node(bearing) == bearing.nodes[1]

\* top_node = bearing["nodes"][1]
bearing_top_node(bearing) == bearing.nodes[2]

generate_fixed_base_variant(model) ==
    LET bearing_top_nodes == {bearing_top_node(b) : b \in Range(model.bearings)}
        ndf == model.model_info.ndf
    IN [model EXCEPT
           !.model_info = IF is_z_up(model) THEN with_z_up(@) ELSE @,
           !.bearings = <<>>,
           !.nodes = [k \in 1..Len(@) |->
                         IF @[k].id \in bearing_top_nodes
                         THEN [@[k] EXCEPT !.fixity = [f \in 1..ndf |-> 1]]
                         ELSE @[k]]]

\* Variant: the factor is added to the coefficient.
scaled_by_sum(mu, factor) == mu + factor

\* fm["mu_slow"] * factor
scaled(mu, factor) == mu * factor

apply_lambda_factor(model, factor) ==
    [model EXCEPT
        !.bearings = [b \in 1..Len(@) |->
            [@[b] EXCEPT
                !.friction_models = [q \in 1..Len(@) |->
                    [@[q] EXCEPT !.mu_slow = scaled(@, factor),
                                 !.mu_fast = scaled(@, factor)]]]]]

\* ---------------------------------------------------------- run_comparison

\* request.lambda_factors: None is written <<>>; lambda_min and lambda_max
\* are unconstrained floats in LambdaFactorsSchema, so negative, zero and
\* positive values are drawn.
LambdaFactors ==
    {<<>>} \cup {<<[lambda_min |-> lo, lambda_max |-> hi]>> :
                    lo \in {-1, 0, 1}, hi \in Factors}

\* The parameters of the two solver entry points run_comparison uses:
\* those without a default value and those with one.
run_time_history_params ==
    [required |-> {"model_data", "ground_motion", "dt", "num_steps"},
     optional |-> {"direction"}]

run_pushover_analysis_params ==
    [required |-> {"model_data", "target_displacement"},
     optional |-> {"num_steps", "control_node", "control_dof", "load_pattern"}]

\* Python binds a call when every parameter without a default is given and
\* every keyword given names a parameter; otherwise the call raises
\* TypeError before the function body runs.
binds(params, given) ==
    /\ params.required \subseteq given
    /\ given \subseteq params.required \cup params.optional

\* _run_variant_time_history and _run_variant_pushover: the solver call
\* each makes, with the keywords it passes.
variant_call(fn, model) ==
    [fn |-> fn, model |-> model,
     binds |-> IF fn = "run_time_history"
               THEN binds(run_time_history_params,
                          {"model_data", "ground_motions", "dt", "num_steps"})
               ELSE binds(run_pushover_analysis_params,
                          {"model_data", "target_displacement", "num_steps",
                           "control_node", "control_dof", "load_pattern"})]

\* The solver calls of run_comparison in order, when none raises.
planned_runs(stored, type, lambda_factors) ==
    LET fixed_base_model == generate_fixed_base_variant(stored)
    IN IF type = "time_history"
       THEN <<variant_call("run_time_history", stored),
              variant_call("run_time_history", fixed_base_model)>>
       ELSE <<variant_call("run_pushover_analysis", stored),
              variant_call("run_pushover_analysis", fixed_base_model)>>
            \o (IF lambda_factors # <<>>
                THEN <<variant_call("run_pushover_analysis",
                           apply_lambda_factor(stored, lambda_factors[1].lambda_max)),
                       variant_call("run_pushover_analysis",
                           apply_lambda_factor(stored, lambda_factors[1].lambda_min))>>
                ELSE <<>>)

\* run_comparison on a stored model.  `raising` is the number of the solver
\* run that raises, 0 when every run returns.  `handed` lists the runs the
\* solver was entered for; any exception becomes the 500 response.
run_comparison(stored, type, n_records, lambda_factors, raising) ==
    LET plan == planned_runs(stored, type, lambda_factors)
        no_records == type = "time_history" /\ n_records = 0
        entered(k) == /\ ~no_records
                      /\ \A q \in 1..k : plan[q].binds
                      /\ \A q \in 1..(k - 1) : q # raising
        n_entered == Cardinality({k \in 1..Len(plan) : entered(k)})
        complete == \A k \in 1..Len(plan) : entered(k) /\ k # raising
    IN [handed |-> [k \in 1..n_entered |-> [fn |-> plan[k].fn, model |-> plan[k].model]],
        response |->
            IF complete
            THEN [code |-> 200, status |-> "complete",
                  comparison_type |-> IF type = "time_history" THEN type ELSE "pushover",
                  isolated |-> TRUE, fixed_base |-> TRUE,
                  isolated_upper |-> Len(plan) = 4, isolated_lower |-> Len(plan) = 4]
            ELSE [code |-> 500, status |-> "error", comparison_type |-> "none",
                  isolated |-> FALSE, fixed_base |-> FALSE,
                  isolated_upper |-> FALSE, isolated_lower |-> FALSE]]

\* ------------------------------------------------- _compute_hinge_states

Abs(x) == IF x < 0 THEN -x ELSE x

find_section(model, section_id) ==
    LET found == {k \in 1..Len(model.sections) : model.sections[k].id = section_id}
    IN IF found = {} THEN <<>>
       ELSE <<model.sections[CHOOSE k \in found : \A q \in found : k <= q]>>

\* My of an element: (E / 200) * S with S = Iz / (d / 2), or 1.0 when the
\* element has no section.
yield_moment(model, elem) ==
    LET sec == find_section(model, elem.section_id)
    IN IF sec = <<>> THEN 1
       ELSE LET props == sec[1].properties
                S == IF props.d > 0 THEN (2 * props.Iz) \div props.d ELSE props.Iz
            IN (props.E * S) \div 200

\* dc_ratio as the fraction <<numerator, denominator>>.
dc_ratio(moment, My) == IF My > 0 THEN <<moment, My>> ELSE <<0, 1>>

\* Variant: the boundary values belong to the lower class.
perf_level_boundary_low(dc) ==
    IF dc[1] <= 1 * dc[2] THEN "None"
    ELSE IF dc[1] <= 2 * dc[2] THEN "IO"
    ELSE IF dc[1] <= 3 * dc[2] THEN "LS"
    ELSE "CP"

\* perf_level by the if/elif chain on dc_ratio; "None" is Python's None.
perf_level(dc) ==
    IF dc[1] < 1 * dc[2] THEN "None"
    ELSE IF dc[1] < 2 * dc[2] THEN "IO"
    ELSE IF dc[1] < 3 * dc[2] THEN "LS"
    ELSE "CP"

\* rotation as a fraction: 0.0 when elastic, else (dc_ratio - 1.0) * 0.01.
rotation_of(dc) == IF dc[1] < dc[2] THEN <<0, 1>> ELSE <<dc[1] - dc[2], 100 * dc[2]>>

\* Variant: only the ends that left the elastic range are appended.
end_appended_if_plastic(level) == level # "None"

\* hinge_states.append(...) follows the if/elif chain unconditionally.
end_appended(level) == TRUE

\* The records of one element: its I end, then its J end.
element_hinges(model, elem, forces) ==
    IF Len(forces) < 3 THEN <<>>
    ELSE LET moment_i == Abs(forces[3])
             moment_j == IF Len(forces) >= 6 THEN Abs(forces[6]) ELSE 0
             My == yield_moment(model, elem)
             rec(label, moment) ==
                 LET dc == dc_ratio(moment, My)
                 IN IF moment = 0 \/ ~end_appended(perf_level(dc)) THEN <<>>
                    ELSE <<[element_id |-> elem.id, end |-> label,
                            rotation |-> rotation_of(dc), moment |-> moment,
                            performance_level |-> perf_level(dc),
                            demand_capacity_ratio |-> dc]>>
         IN rec("I", moment_i) \o rec("J", moment_j)

RECURSIVE hinge_loop(_, _, _)
hinge_loop(model, element_forces_arg, k) ==
    IF k > Len(model.elements) THEN <<>>
    ELSE LET elem == model.elements[k]
             forces == IF elem.id \in DOMAIN element_forces_arg
                       THEN element_forces_arg[elem.id] ELSE <<>>
         IN element_hinges(model, elem, forces) \o hinge_loop(model, element_forces_arg, k + 1)

compute_hinge_states(model, element_forces_arg) == hinge_loop(model, element_forces_arg, 1)

\* ------------------------------------------ pushover control node

\* _vert_coord_idx, as a 1-based index.
vert_coord_idx(m) == IF is_z_up(m) THEN 3 ELSE 2

\* Variant: every node is a candidate.
all_node_list(d) == d.nodes

\* The free_nodes list of run_pushover_analysis, in model order.
free_node_list(d) == SelectSeq(d.nodes, LAMBDA n : ~is_fixed(n))

\* control_node of run_pushover_analysis; None is written 0.  max() returns
\* the first of the candidates with the largest key.
control_node_of(d, control_node) ==
    IF control_node # 0 THEN control_node
    ELSE LET cands == free_node_list(d)
             vert_idx == vert_coord_idx(d)
             key(k) == IF Len(cands[k].coords) >= vert_idx
                       THEN cands[k].coords[vert_idx] ELSE 0
             best == CHOOSE k \in 1..Len(cands) :
                        /\ \A q \in 1..Len(cands) : key(q) <= key(k)
                        /\ \A q \in 1..(k - 1) : key(q) < key(k)
         IN cands[best].id

\* ------------------------------------------- calls of the pure functions

\* Address of the caller's model object.
CallerRef == 1

\* Variant: no copy is made, the function works on the caller's object.
no_copy(ref) == ref

\* copy.deepcopy(model_data): the address of the fresh object.
deepcopy(ref) == ref + 1

\* The caller holds one model and has called nothing yet.
InitPure ==
    /\ OrchIdle /\ ApiIdle
    /\ \E m \in InputModels : heap = <<m, NoModel>> /\ p_before = m
    /\ p_pc = "input" /\ p_fn = "none" /\ p_arg = 0 /\ p_ret = [ref |-> 0]

\* _discretize_elements(model, ratio): below ratio 2 the caller's object
\* itself is returned, otherwise a modified deep copy.
Discretize(ratio) ==
    /\ p_pc = "input"
    /\ LET r == discretize_elements(heap[CallerRef], ratio)
           target == IF ratio < 2 THEN CallerRef ELSE deepcopy(CallerRef)
       IN /\ heap' = [heap EXCEPT ![target] = r.data]
          /\ p_ret' = [ref |-> target, discretization_map |-> r.discretization_map,
                       internal_nodes |-> r.internal_nodes]
    /\ p_pc' = "called" /\ p_fn' = "_discretize_elements" /\ p_arg' = ratio
    /\ UNCHANGED <<p_before, orchVars, apiVars>>

\* A run_* function rebinds its local model_data to the discretized copy
\* and works on that; its result holds no reference to a model.
RunCall(k) ==
    /\ p_pc = "input"
    /\ LET r == discretize_elements(heap[CallerRef], DefaultRatio)
       IN /\ heap' = [heap EXCEPT ![deepcopy(CallerRef)] = r.data]
          /\ p_ret' = [ref |-> 0, discretization_map |-> r.discretization_map]
    /\ p_pc' = "called" /\ p_fn' = k /\ p_arg' = DefaultRatio
    /\ UNCHANGED <<p_before, orchVars, apiVars>>

FixedBaseCall ==
    /\ p_pc = "input"
    /\ heap' = [heap EXCEPT ![deepcopy(CallerRef)] =
                   generate_fixed_base_variant(heap[CallerRef])]
    /\ p_ret' = [ref |-> deepcopy(CallerRef)]
    /\ p_pc' = "called" /\ p_fn' = "generate_fixed_base_variant" /\ p_arg' = 0
    /\ UNCHANGED <<p_before, orchVars, apiVars>>

LambdaCall(factor) ==
    /\ p_pc = "input"
    /\ heap' = [heap EXCEPT ![deepcopy(CallerRef)] =
                   apply_lambda_factor(heap[CallerRef], factor)]
    /\ p_ret' = [ref |-> deepcopy(CallerRef)]
    /\ p_pc' = "called" /\ p_fn' = "apply_lambda_factor" /\ p_arg' = factor
    /\ UNCHANGED <<p_before, orchVars, apiVars>>

\* POST /api/comparison/run on the stored model the caller holds.
ComparisonCall(type, n_records, lambda_factors, raising) ==
    /\ p_pc = "input"
    /\ p_ret' = [ref |-> 0] @@ run_comparison(heap[CallerRef], type, n_records,
                                              lambda_factors, raising)
    /\ p_pc' = "called" /\ p_fn' = "run_comparison"
    /\ p_arg' = [type |-> type, n_records |-> n_records,
                 lambda_factors |-> lambda_factors, raising |-> raising]
    /\ UNCHANGED <<heap, p_before, orchVars, apiVars>>

\* _compute_hinge_states(model, element_forces) with the same force list
\* for every element.
HingeCall(forces) ==
    /\ p_pc = "input"
    /\ p_ret' = [ref |-> 0,
                 hinge_states |->
                    compute_hinge_states(heap[CallerRef],
                        [e \in SelectSeqIds(heap[CallerRef].elements) |-> forces])]
    /\ p_pc' = "called" /\ p_fn' = "_compute_hinge_states" /\ p_arg' = forces
    /\ UNCHANGED <<heap, p_before, orchVars, apiVars>>

\* run_pushover_analysis up to the choice of the control node: the model
\* is discretized, then the control node is taken or detected.
ControlNodeCall(control_node) ==
    /\ p_pc = "input"
    /\ LET r == discretize_elements(heap[CallerRef], DefaultRatio)
       IN /\ free_node_list(r.data) # <<>>
          /\ heap' = [heap EXCEPT ![deepcopy(CallerRef)] = r.data]
          /\ p_ret' = [ref |-> 0, control_node |-> control_node_of(r.data, control_node)]
    /\ p_pc' = "called" /\ p_fn' = "run_pushover_analysis" /\ p_arg' = control_node
    /\ UNCHANGED <<p_before, orchVars, apiVars>>

\* The caller changes the model object it was handed back.
ChangeReturned ==
    /\ p_pc = "called" /\ p_ret.ref # 0
    /\ heap' = [heap EXCEPT ![p_ret.ref].bearings = <<>>, ![p_ret.ref].loads = <<>>]
    /\ p_pc' = "changed"
    /\ UNCHANGED <<p_fn, p_arg, p_ret, p_before, orchVars, apiVars>>

NextPure ==
    \/ \E ratio \in Ratios : Discretize(ratio)
    \/ \E k \in Kinds : RunCall(k)
    \/ FixedBaseCall
    \/ \E factor \in Factors : LambdaCall(factor)
    \/ \E type \in {"pushover", "time_history"}, lambda_factors \in LambdaFactors,
          raising \in 0..4 :
           ComparisonCall(type, IF type = "time_history" THEN 1 ELSE 0,
                          lambda_factors, raising)
    \/ \E forces \in ForceLists : HingeCall(forces)
    \/ \E control_node \in {0, 1, 2} : ControlNodeCall(control_node)
    \/ ChangeReturned

SpecPure == InitPure /\ [][NextPure]_vars

\* ------------------------------------------------------------ build_model

\* Tag bases of _define_bearings and the number of sliding surfaces.
FrictionTagBase == 1000
MatTagBase == 5000
EleTagBase == 10000
NSurfaces == 4
TagStride == 10

Material(id, type) == [id |-> id, type |-> type]

\* A two-node 2D model with the lists build_model reads.
BuildModel(fixity, materials, sections, elements, bearings) ==
    [name |-> "build", model_info |-> [ndm |-> 2, ndf |-> 3],
     nodes |-> <<Node(1, <<0, 0>>, fixity), Node(2, <<60>>, <<>>)>>,
     materials |-> materials, sections |-> sections, elements |-> elements,
     bearings |-> bearings]

\* The models given to build_model: fixity lists shorter than, as long as
\* and longer than ndf; recognised and unrecognised material, section and
\* element types; user ids below and inside the ranges of the bearing tags.
BuildModels ==
    LET fixities == {<<>>, <<1>>, <<0, 1>>, <<0, 0, 0>>, <<1, 1, 1>>, <<0, 0, 0, 1>>,
                     <<1, 0, 0, 0>>}
        materials == {<<>>, <<Material(1, "Elastic")>>,
                      <<Material(1, "Elastic"), Material(2, "Concrete01"),
                        Material(3, "Steel02")>>,
                      <<Material(1001, "VelDependent")>>, <<Material(5011, "Elastic")>>}
        elastic == [Section(2, 200, 2) EXCEPT !.id = 2, !.type = "Elastic"]
        sections == {<<>>, <<Section(2, 200, 2)>>, <<elastic>>,
                     <<Section(2, 200, 2), elastic>>}
        elements == {<<>>, <<Elem(1, "elasticBeamColumn", 1, 2)>>,
                     <<Elem(1, "shell", 1, 2), Elem(2, "truss", 1, 2)>>,
                     <<Elem(10001, "elasticBeamColumn", 1, 2)>>,
                     <<Elem(3, "zeroLength", 1, 2), Elem(4, "elasticBeamColumn", 1, 2)>>}
    IN {BuildModel(f, ms, ss, es, bs) :
           f \in fixities, ms \in materials, ss \in sections, es \in elements,
           bs \in InputBearings}

\* One command given to the solver (ops.<op>(<type>, <tag>, *args)), or one
\* logger.warning about the entity <tag> of type <type>.
Op(op, type, tag, args) == [op |-> op, type |-> type, tag |-> tag, args |-> args]

RECURSIVE Concat(_)
Concat(ss) == IF ss = <<>> THEN <<>> ELSE Head(ss) \o Concat(Tail(ss))

\* The node loop of build_model.  The value appended by the padding loop is
\* the same at every iteration: 1 when the given list is non-empty and all
\* ones, else 0.  `any` is taken over the padded list before it is cut.
node_ops(node, ndm, ndf) ==
    LET given == IF "fixity" \in DOMAIN node THEN node.fixity ELSE <<>>
        v == IF given # <<>> /\ \A k \in 1..Len(given) : given[k] = 1 THEN 1 ELSE 0
        fixity == [k \in 1..Max({Len(given), ndf}) |->
                      IF k <= Len(given) THEN given[k] ELSE v]
        coords == [k \in 1..Max({Len(node.coords), ndm}) |->
                      IF k <= Len(node.coords) THEN node.coords[k] ELSE 0]
    IN <<Op("node", "", node.id, SubSeq(coords, 1, ndm))>>
       \o (IF fixity # <<>> /\ \E k \in 1..Len(fixity) : fixity[k] = 1
           THEN <<Op("fix", "", node.id, SubSeq(fixity, 1, ndf))>>
           ELSE <<>>)

define_materials(materials) ==
    Concat([k \in 1..Len(materials) |->
        LET mid == materials[k].id
            mtype == materials[k].type
        IN CASE mtype = "Elastic" -> <<Op("uniaxialMaterial", "Elastic", mid, <<>>)>>
             [] mtype = "Steel02" -> <<Op("uniaxialMaterial", "Steel02", mid, <<>>)>>
             [] mtype = "VelDependent" -> <<Op("frictionModel", "VelDependent", mid, <<>>)>>
             [] OTHER -> <<Op("warning", mtype, mid, <<>>)>>])

define_sections(sections) ==
    Concat([k \in 1..Len(sections) |->
        IF sections[k].type = "Elastic"
        THEN <<Op("section", "Elastic", sections[k].id, <<>>)>>
        ELSE <<Op("warning", sections[k].type, sections[k].id, <<>>)>>])

\* Variant: an element of unknown type is built as a beam-column.
element_op_defaulting(elem) ==
    CASE elem.type = "truss" -> Op("element", "Truss", elem.id, elem.nodes)
      [] elem.type = "zeroLength" -> Op("element", "zeroLength", elem.id, elem.nodes)
      [] OTHER -> Op("element", "elasticBeamColumn", elem.id, elem.nodes)

\* The type dispatch of the element loop of _build_2d_elements.
element_op(elem) ==
    CASE elem.type = "elasticBeamColumn" ->
             Op("element", "elasticBeamColumn", elem.id, elem.nodes)
      [] elem.type = "truss" -> Op("element", "Truss", elem.id, elem.nodes)
      [] elem.type = "zeroLength" -> Op("element", "zeroLength", elem.id, elem.nodes)
      [] OTHER -> Op("warning", elem.type, elem.id, <<>>)

\* _build_2d_elements: one geomTransf per distinct transform name in order of
\* first use, then one command or warning per element.
build_2d_elements(elements) ==
    LET tname(k) == elements[k].transform
        first_use(k) == \A q \in 1..(k - 1) : tname(q) # tname(k)
        earlier(k) == Cardinality({tname(q) : q \in 1..(k - 1)})
    IN Concat([k \in 1..Len(elements) |->
                  IF first_use(k)
                  THEN <<Op("geomTransf", tname(k), earlier(k) + 1, <<>>)>>
                  ELSE <<>>])
       \o [k \in 1..Len(elements) |-> element_op(elements[k])]

\* _define_bearings for ndm < 3: four friction models, four elastic
\* materials and the bearing element with the four-friction signature.
define_bearings(bearings) ==
    Concat([k \in 1..Len(bearings) |->
        LET bid == bearings[k].id
            ele_tag == EleTagBase + bid
            fm_tags == [q \in 1..NSurfaces |-> FrictionTagBase + (bid - 1) * TagStride + q]
            mat_tags == [q \in 1..NSurfaces |-> MatTagBase + bid * TagStride + q]
        IN [q \in 1..NSurfaces |-> Op("frictionModel", "VelDependent", fm_tags[q], <<>>)]
           \o [q \in 1..NSurfaces |-> Op("uniaxialMaterial", "Elastic", mat_tags[q], <<>>)]
           \o <<Op("element", "TripleFrictionPendulum", ele_tag,
                   bearings[k].nodes \o fm_tags)>>])

\* build_model for ndm < 3: the commands and warnings it issues, in order.
build_model(m) ==
    Concat([k \in 1..Len(m.nodes) |-> node_ops(m.nodes[k], m.model_info.ndm, m.model_info.ndf)])
    \o define_materials(IF "materials" \in DOMAIN m THEN m.materials ELSE <<>>)
    \o define_sections(IF "sections" \in DOMAIN m THEN m.sections ELSE <<>>)
    \o build_2d_elements(IF "elements" \in DOMAIN m THEN m.elements ELSE <<>>)
    \o define_bearings(IF "bearings" \in DOMAIN m THEN m.bearings ELSE <<>>)

\* ----------------------------------------------------- _build_3d_elements

\* 3D models after test_solver_unit.py _minimal_3d_model: node 1 at the
\* origin, node 2 at `tip`, one beam between them whose section has
\* Iz 722 and Iy 121; model_info carries z_up or not.
Model3D(z_up_key, tip, bearings) ==
    [name |-> "3D Test",
     model_info |-> IF z_up_key = "absent" THEN [ndm |-> 3, ndf |-> 6]
                    ELSE [ndm |-> 3, ndf |-> 6, z_up |-> (z_up_key = "true")],
     nodes |-> <<Node(1, <<0, 0, 0>>, <<1, 1, 1, 1, 1, 1>>), Node(2, tip, <<>>)>>,
     sections |-> <<[id |-> 1, type |-> "Elastic",
                     properties |-> [Iz |-> 722, Iy |-> 121]]>>,
     elements |-> <<Elem(1, "elasticBeamColumn", 1, 2)>>,
     bearings |-> bearings]

\* Beams along X, Y and Z, two diagonals and a zero-length one.
Tips3D == {<<10, 0, 0>>, <<0, 10, 0>>, <<0, 0, 10>>, <<10, 0, 10>>, <<2, 10, 0>>,
           <<0, 0, 0>>}

Models3D ==
    {Model3D(z_up_key, tip, bearings) :
        z_up_key \in {"absent", "false", "true"}, tip \in Tips3D,
        bearings \in {<<>>, <<TFPBearing(1, 1, 2)>>}}

\* `z_up = bool(model_data.get("model_info", {}).get("z_up", False))`
builder_z_up(m) == "z_up" \in DOMAIN m.model_info /\ m.model_info.z_up

\* abs(component / length) > 0.9, on integer coordinates.
steep(component, length2) == 100 * component * component > 81 * length2

\* The reference vector of one beam: (0, 0, 1) for a zero-length member,
\* global X for a vertical one, else the vertical axis.
vecxz_of(m, elem) ==
    LET ci == node_lookup(m, elem.nodes[1])
        cj == node_lookup(m, elem.nodes[2])
        dx == cj[1] - ci[1]
        dy == cj[2] - ci[2]
        dz == cj[3] - ci[3]
        length2 == dx * dx + dy * dy + dz * dz
        vertical_component == IF builder_z_up(m) THEN dz ELSE dy
    IN IF length2 = 0 THEN <<0, 0, 1>>
       ELSE IF steep(vertical_component, length2) THEN <<1, 0, 0>>
       ELSE IF builder_z_up(m) THEN <<0, 0, 1>> ELSE <<0, 1, 0>>

\* Iy_elem and Iz_elem of one beam.
elem_inertias(m, elem) ==
    LET sec == find_section(m, elem.section_id)
        Iz_section == IF sec = <<>> THEN 1 ELSE sec[1].properties.Iz
        Iy_section == IF sec # <<>> /\ "Iy" \in DOMAIN sec[1].properties
                      THEN sec[1].properties.Iy ELSE Iz_section
    IN IF builder_z_up(m) THEN <<Iz_section, Iy_section>>
       ELSE <<Iy_section, Iz_section>>

\* _build_3d_elements: one geomTransf and one element command per beam,
\* one command or warning per other element.
build_3d_elements(m) ==
    Concat([k \in 1..Len(m.elements) |->
        LET elem == m.elements[k]
            transf_tag == 1 + Cardinality({q \in 1..(k - 1) : is_beam_column(m.elements[q])})
        IN IF is_beam_column(elem)
           THEN <<Op("geomTransf", elem.transform, transf_tag, vecxz_of(m, elem)),
                  Op("element", "elasticBeamColumn", elem.id,
                     elem.nodes \o elem_inertias(m, elem) \o <<transf_tag>>)>>
           ELSE <<element_op(elem)>>])

\* ------------------------------------------------ _compute_deformed_shape

\* The largest scale factor of a deformed shape.
MaxScale == 2

\* node_displacements arguments: no entry, zero, non-zero and short lists.
DisplacementDicts ==
    LET zero == <<0, 0, 0>>
        moved == <<2, -1, 1>>
        short == <<3>>
    IN {<<>>, 1 :> zero, 1 :> moved, 1 :> moved @@ 2 :> moved, 2 :> short,
        1 :> short @@ 2 :> zero}

\* Variant: the displacement is added unscaled.
offset_unscaled(scale_factor, disp) == disp

\* scale_factor * disps[i]
offset(scale_factor, disp) == scale_factor * disp

\* _compute_deformed_shape: node id -> deformed coordinates.
compute_deformed_shape(m, node_displacements, ndm, scale_factor) ==
    [nid \in {n.id : n \in Range(m.nodes)} |->
        LET coords == (CHOOSE n \in Range(m.nodes) : n.id = nid).coords
            disps == IF nid \in DOMAIN node_displacements
                     THEN node_displacements[nid] ELSE [k \in 1..ndm |-> 0]
            lens == {ndm, Len(coords), Len(disps)}
            len == CHOOSE x \in lens : \A y \in lens : x <= y
        IN [k \in 1..len |-> coords[k] + offset(scale_factor, disps[k])]]

\* ------------------------------------- run_modal_analysis, periods

\* The largest number of modes asked of the eigen solver.
MaxModes == 2

\* Eigenvalue lists ops.eigen may return: negative, zero and positive values.
EigenLists == UNION {[1..n -> {-1, 0, 4, 9}] : n \in 0..MaxModes}

\* Real quantities of the period computation, kept exact as
\* sign * (2 pi)^two_pi * sqrt(of)^root; sign 0 is the value 0.0.
Quantity(sign, two_pi, root, of) ==
    [sign |-> sign, two_pi |-> two_pi, root |-> root, of |-> of]

\* 2 pi / x for x # 0
two_pi_over(x) == Quantity(x.sign, 1 - x.two_pi, -x.root, x.of)

\* Variant: the value is not inverted.
not_inverted(x) == x

\* 1.0 / x for x # 0
reciprocal(x) == Quantity(x.sign, -x.two_pi, -x.root, x.of)

\* The loop over the eigenvalues in run_modal_analysis: omega = sqrt(ev),
\* T = 2 pi / omega, f = 1 / T, or T = f = 0.0 when ev <= 0.
modal_periods(eigenvalues) ==
    LET omega(ev) == Quantity(1, 0, 1, ev)
        T(ev) == IF ev > 0 THEN two_pi_over(omega(ev)) ELSE Quantity(0, 0, 0, 0)
        f(ev) == IF ev > 0 THEN reciprocal(T(ev)) ELSE Quantity(0, 0, 0, 0)
    IN [periods |-> [k \in 1..Len(eigenvalues) |-> T(eigenvalues[k])],
        frequencies |-> [k \in 1..Len(eigenvalues) |-> f(eigenvalues[k])]]

\* ------------------------------------ run_modal_analysis, mass participation

\* Significant bits of the floating-point numbers of the model (53 in the
\* program's doubles).
FloatBits == 4

RECURSIVE Pow2(_)
Pow2(k) == IF k = 0 THEN 1 ELSE 2 * Pow2(k - 1)

\* The float nearest to n/d (n >= 0, d > 0), ties to even, as a fraction.
RECURSIVE round_to_float(_, _)
round_to_float(n, d) ==
    IF n = 0 THEN <<0, 1>>
    ELSE IF n >= Pow2(FloatBits) * d
         THEN LET r == round_to_float(n, 2 * d) IN <<2 * r[1], r[2]>>
    ELSE IF n < Pow2(FloatBits - 1) * d
         THEN LET r == round_to_float(2 * n, d) IN <<r[1], 2 * r[2]>>
    ELSE LET k == n \div d
             rest == n % d
             up == 2 * rest > d \/ (2 * rest = d /\ k % 2 = 1)
         IN <<IF up THEN k + 1 ELSE k, 1>>

\* The result of one float operation whose exact value is the fraction x.
fl(x) ==
    IF x[1] < 0 THEN LET r == round_to_float(-x[1], x[2]) IN <<-r[1], r[2]>>
    ELSE round_to_float(x[1], x[2])

fmul(a, b) == fl(<<a[1] * b[1], a[2] * b[2]>>)

fadd(a, b) == fl(<<a[1] * b[2] + b[1] * a[2], a[2] * b[2]>>)

\* a / b for b > 0.
fdiv(a, b) == fl(<<a[1] * b[2], a[2] * b[1]>>)

Zero == <<0, 1>>

\* node_masses values of free nodes (Zero: the node has no entry) and
\* eigenvector components, all floats of FloatBits bits.
MassValues == {Zero, <<9, 8>>, <<7, 1>>}

ShapeValues == {Zero, <<1, 1>>, <<-3, 4>>, <<5, 8>>}

\* The sum of a list of floats, left to right from 0.
RECURSIVE fsum(_)
fsum(xs) == IF xs = <<>> THEN Zero ELSE fadd(fsum(SubSeq(xs, 1, Len(xs) - 1)), xs[Len(xs)])

\* The ratio of one mode and direction: masses[k] and phi[k] belong to the
\* k-th free node, fixed_mass to a fully fixed node (Zero: no entry).
participation(masses, fixed_mass, phi) ==
    LET entries == SelectSeq(masses \o <<fixed_mass>>, LAMBDA m : m # Zero)
        total_mass == IF entries # <<>> THEN fsum(entries) ELSE <<1, 1>>
        L_n == fsum([k \in 1..Len(masses) |-> fmul(masses[k], phi[k])])
        M_n == fsum([k \in 1..Len(masses) |-> fmul(fmul(masses[k], phi[k]), phi[k])])
    IN [M_n |-> M_n,
        ratio |-> IF M_n[1] > 0 /\ total_mass[1] > 0
                  THEN fdiv(fmul(L_n, L_n), fmul(M_n, total_mass))
                  ELSE Zero]

\* ---------------------------------------------------- StructuralModelSchema

\* Candidate models for validation: nodes 1 and 2, material 1, and
\* references that exist or not (9); section_id 0 is the schema's default.
SchemaInputs ==
    {[nodes |-> <<Node(1, <<0, 0>>, <<1, 1, 1>>), Node(2, <<0, 60>>, <<>>)>>,
      materials |-> <<Material(1, "Elastic")>>,
      sections |-> sections, elements |-> elements, bearings |-> bearings] :
        sections \in {<<>>} \cup
            {<<[id |-> 1, type |-> "Elastic", material_id |-> mat]>> : mat \in {1, 9}},
        elements \in {<<>>} \cup
            {<<[Elem(1, "elasticBeamColumn", 1, far) EXCEPT !.section_id = sec]>> :
                far \in {2, 9}, sec \in {0, 1, 9}},
        bearings \in {<<>>, <<TFPBearing(1, 1, 2)>>, <<TFPBearing(1, 9, 2)>>}}

\* validate_model_integrity: TRUE when no ValueError is raised.
validate_model_integrity(m) ==
    LET node_ids == SelectSeqIds(m.nodes)
        mat_ids == SelectSeqIds(m.materials)
    IN /\ \A k \in 1..Len(m.elements) : Range(m.elements[k].nodes) \subseteq node_ids
       /\ \A k \in 1..Len(m.bearings) : Range(m.bearings[k].nodes) \subseteq node_ids
       /\ \A k \in 1..Len(m.sections) : m.sections[k].material_id \in mat_ids

\* The caller holds one model for build_model.
InitBuild ==
    /\ OrchIdle /\ ApiIdle
    /\ \E m \in BuildModels : heap = <<m, NoModel>> /\ p_before = m
    /\ p_pc = "input" /\ p_fn = "none" /\ p_arg = 0 /\ p_ret = [ref |-> 0]

BuildCall ==
    /\ p_pc = "input"
    /\ p_ret' = [ref |-> 0, ops |-> build_model(heap[CallerRef])]
    /\ p_pc' = "called" /\ p_fn' = "build_model" /\ p_arg' = 0
    /\ UNCHANGED <<heap, p_before, orchVars, apiVars>>

DeformedCall(node_displacements, ndm, scale_factor) ==
    /\ p_pc = "input"
    /\ p_ret' = [ref |-> 0,
                 deformed |-> compute_deformed_shape(heap[CallerRef], node_displacements,
                                                     ndm, scale_factor)]
    /\ p_pc' = "called" /\ p_fn' = "_compute_deformed_shape"
    /\ p_arg' = [node_displacements |-> node_displacements, ndm |-> ndm,
                 scale_factor |-> scale_factor]
    /\ UNCHANGED <<heap, p_before, orchVars, apiVars>>

\* The periods and frequencies run_modal_analysis reports for the
\* eigenvalues the solver returned.
ModalCall(eigenvalues) ==
    /\ p_pc = "input"
    /\ p_ret' = [ref |-> 0] @@ modal_periods(eigenvalues)
    /\ p_pc' = "called" /\ p_fn' = "run_modal_analysis"
    /\ p_arg' = eigenvalues
    /\ UNCHANGED <<heap, p_before, orchVars, apiVars>>

\* build_model on a 3D model: the commands of _build_3d_elements.
Build3DCall(m) ==
    /\ p_pc = "input"
    /\ p_ret' = [ref |-> 0, ops |-> build_3d_elements(m)]
    /\ p_pc' = "called" /\ p_fn' = "_build_3d_elements" /\ p_arg' = m
    /\ UNCHANGED <<heap, p_before, orchVars, apiVars>>

\* StructuralModelSchema(**candidate): accepted or ValidationError.
ValidateCall(m) ==
    /\ p_pc = "input"
    /\ p_ret' = [ref |-> 0, accepted |-> validate_model_integrity(m)]
    /\ p_pc' = "called" /\ p_fn' = "StructuralModelSchema" /\ p_arg' = m
    /\ UNCHANGED <<heap, p_before, orchVars, apiVars>>

\* The mass participation loop of run_modal_analysis for one mode and
\* direction.
ParticipationCall(masses, fixed_mass, phi) ==
    /\ p_pc = "input"
    /\ p_ret' = [ref |-> 0] @@ participation(masses, fixed_mass, phi)
    /\ p_pc' = "called" /\ p_fn' = "mass_participation"
    /\ p_arg' = [masses |-> masses, fixed_mass |-> fixed_mass, phi |-> phi]
    /\ UNCHANGED <<heap, p_before, orchVars, apiVars>>

NextBuild ==
    \/ BuildCall
    \/ \E eigenvalues \in EigenLists : ModalCall(eigenvalues)
    \/ \E node_displacements \in DisplacementDicts, ndm \in 1..3,
          scale_factor \in 0..MaxScale :
           DeformedCall(node_displacements, ndm, scale_factor)

SpecBuild == InitBuild /\ [][NextBuild]_vars

\* ------------------------------------------- functions of their arguments

\* The caller holds no model: each call brings its whole input.
InitCalc ==
    /\ OrchIdle /\ ApiIdle
    /\ heap = <<NoModel, NoModel>> /\ p_before = NoModel
    /\ p_pc = "input" /\ p_fn = "none" /\ p_arg = 0 /\ p_ret = [ref |-> 0]

NextCalc ==
    \/ \E m \in Models3D : Build3DCall(m)
    \/ \E m \in SchemaInputs : ValidateCall(m)
    \/ \E n \in 1..2 :
          \E masses \in [1..n -> MassValues], phi \in [1..n -> ShapeValues],
             fixed_mass \in {Zero, <<9, 8>>} :
              ParticipationCall(masses, fixed_mass, phi)

SpecCalc == InitCalc /\ [][NextCalc]_vars

\* ================================================================ claims

StepContexts == {"g_main", "g_mini", "th_main", "th_sub1", "th_sub2", "po_step"}

LadderSchemes == <<"Newton", "ModifiedNewton", "KrylovNewton">>

AllFailed == \A k \in 1..Len(tried) : ~tried[k][2]

\* C1: in each of the four run_* functions the domain is wiped before any
\* other solver call and the wipe is the last solver call before control
\* leaves the function, whether it returns, stops early or raises.
C1_WipeFirstAndLast ==
    /\ (pc # "idle" => first = "wipe")
    /\ (pc = "done" => last = "wipe" /\ alg = "none" /\ outcome \in {"returned", "raised"})

C1_Witness ==
    pc = "done" /\ outcome = "raised" /\ err = "converge" /\ first = "wipe" /\ last = "wipe"

\* C2: when a step of run_time_history or run_pushover_analysis fails after
\* every recovery attempt, the function returns normally and its series
\* hold exactly the steps the solver completed before the failing one, in
\* order (t counts what the solver has committed).
C2_PartialSeriesOnFailure ==
    (pc = "done" /\ broke) =>
        /\ outcome = "returned"
        /\ kind \in {"time_history", "pushover"}
        /\ kind = "time_history" =>
              /\ time_vals = [k \in 1..Len(time_vals) |-> k * DT]
              /\ Len(time_vals) = t \div DT
              /\ Len(time_vals) < num_steps
        /\ kind = "pushover" =>
              /\ capacity_curve = [k \in 1..t |-> [step |-> k - 1, roof_displacement |-> k]]
              /\ t < num_steps

C2_Witness ==
    /\ pc = "done" /\ broke /\ outcome = "returned"
    /\ kind = "time_history" /\ num_steps = 2 /\ time_vals = <<DT>>

\* C3: run_static_analysis returns no result when the gravity stage (single
\* step or incremental preload) reports failure: it raises the
\* failed-to-converge RuntimeError.
C3_StaticFailureRaises ==
    (kind = "static" /\ gravity_result # 0) =>
        /\ err = "converge"
        /\ pc \in {"finally", "done"}
        /\ outcome # "returned"
        /\ element_forces = <<>>

C3_Witness ==
    pc = "done" /\ kind = "static" /\ gravity_result = -3 /\ outcome = "raised"

C4_ExpectedRungs ==
    IF actx = "g_mini" \/ (actx = "th_main" /\ Len(data.bearings) = 0) THEN 2 ELSE 3

C5_NewtonRestored ==
    /\ (actx \in StepContexts /\ pc # "done") => alg = "Newton"
    /\ (actx \in StepContexts /\ tried # <<>>) => tried[1][1] = "Newton"

C5_Witness ==
    /\ pc = "th_sub1" /\ actx = "th_main" /\ res = "fail" /\ Len(tried) = 3
    /\ alg = "Newton"

C6_N == IF Len(data.bearings) > 4 THEN 20 ELSE 10

C7_Original ==
    (kind = "pushover" /\ broke) => (actx \in {"po_sub1", "po_sub2"} /\ step_dt < 1)

\* C7 amended: run_pushover_analysis has no sub-stepping: every analyze
\* call of the loop advances by the full increment dU, and an increment on
\* which Newton, ModifiedNewton and KrylovNewton have failed ends the run
\* at once.
C7_PushoverNoSubStepping ==
    kind = "pushover" =>
        /\ actx = "po_step" => step_dt = 1
        /\ broke <=> (actx = "po_step" /\ res = "fail")
        /\ broke => (Len(tried) = 3 /\ AllFailed /\ pc \in {"po_final", "finally", "done"})

C7_Witness ==
    /\ pc = "done" /\ kind = "pushover" /\ broke /\ Len(capacity_curve) = 1

Solving == {r \in Requests : req[r].pc = "solving"}

\* C8: solver calls of two invocations never interleave on the shared
\* domain: between an invocation's entry wipe and its exit wipe no other
\* invocation started through /api/analysis/run or /api/comparison/run
\* makes a solver call.
C8_InvocationsSerialized ==
    /\ owner # -1
    /\ Cardinality(Solving) <= 1
    /\ \A r \in Solving : owner = r /\ loop = r
    /\ Solving = {} => owner = 0

C8_Witness ==
    /\ req[1].pc = "solving" /\ req[1].calls = 1 /\ owner = 1
    /\ req[2].pc = "lookup"

\* C9: run_pushover_analysis raises, returns no result and makes no
\* gravity or pushover analyze call whenever every node of the model it
\* is given is fully restrained (or the model has no nodes).
C9_NoFreeNodeRaises ==
    (kind = "pushover" /\ free_nodes(model_data) = {}) =>
        /\ tried = <<>>
        /\ capacity_curve = <<>>
        /\ pc \in {"build", "finally", "done"}
        /\ pc \in {"finally", "done"} => err # "none"
        /\ outcome # "returned"

Zeros(s) == s # <<>> /\ \A k \in 1..Len(s) : s[k] = 0

\* C10 as claimed: every failed response query leaves a zero-filled record
\* for its element or bearing at its step.
C10_Original ==
    \A q \in qfail :
        LET x == q[1]
            n == q[2]
        IN IF n = 0 THEN Zeros(element_forces[x])
           ELSE IF x \in BearingTags(data)
           THEN \A key \in BearingKeys : bearing_resp_history[x][key][n] = 0
           ELSE /\ element_force_history[x] # <<>>
                /\ \A c \in 1..Len(element_force_history[x]) :
                      element_force_history[x][c][n] = 0

\* C10 amended: a failing response query never aborts the analysis and
\* recording goes on for every other entity and every later step; a failed
\* bearing query puts 0 in each of the bearing's six series at that step; a
\* failed per-step element query of run_time_history puts 0 in each
\* component series the element already has and creates none (series
\* created by a later successful query are back-filled with 0, so every
\* series has one value per recorded step); a failed element query of
\* run_static_analysis or run_pushover_analysis leaves an empty list, not
\* zeros.
C10_QueryFailureRecords ==
    /\ qfail # {} => err = "none"
    /\ (pc = "done" /\ qfail # {}) => outcome = "returned"
    /\ \A e \in DOMAIN element_forces :
          element_forces[e] = IF <<e, 0>> \in qfail THEN <<>> ELSE [c \in 1..NComp |-> c]
    /\ \A b \in DOMAIN bearing_resp_history : \A key \in BearingKeys :
          /\ Len(bearing_resp_history[b][key]) = Len(time_vals)
          /\ \A n \in 1..Len(time_vals) :
                (bearing_resp_history[b][key][n] = 0) <=> (<<b, n>> \in qfail)
    /\ \A e \in DOMAIN element_force_history :
          LET ehist == element_force_history[e]
              answered == {n \in 1..Len(time_vals) : <<e, n>> \notin qfail}
          IN /\ Len(ehist) = IF answered = {} THEN 0 ELSE NComp
             /\ \A c \in 1..Len(ehist) :
                   /\ Len(ehist[c]) = Len(time_vals)
                   /\ \A n \in 1..Len(time_vals) :
                         ehist[c][n] = IF n \in answered THEN c ELSE 0

C10_Witness ==
    /\ kind = "time_history" /\ Len(time_vals) = 2
    /\ \E e \in DOMAIN element_force_history :
          /\ <<e, 2>> \in qfail
          /\ element_force_history[e] = [c \in 1..NComp |-> <<c, 0>>]

\* What a run of n steps of the current model returns when every step
\* converges and every response query answers.
C11_CompleteRun(n) ==
    LET dmap == discretize_elements(model_data, DefaultRatio).discretization_map
    IN IF kind = "time_history"
       THEN th_result([k \in 1..n |-> k * DT],
                      [nid \in {x.id : x \in free_nodes(data)} |->
                          [dof \in 1..data.model_info.ndf |-> [q \in 1..n |-> dof]]],
                      [e \in ElementTags(data) |->
                          [c \in 1..NComp |-> [q \in 1..n |-> c]]],
                      [b \in BearingTags(data) |->
                          [key \in BearingKeys |->
                              [q \in 1..n |-> bearing_step_values(FALSE)[key]]]],
                      dmap, FALSE)
       ELSE po_result([k \in 1..n |-> [step |-> k - 1, roof_displacement |-> k]],
                      [e \in ElementTags(data) |-> [c \in 1..NComp |-> c]],
                      dmap, FALSE)

C11_Steps == IF kind = "time_history" THEN Len(time_vals) ELSE Len(capacity_curve)

C11_StoppedEarly ==
    /\ pc = "done" /\ outcome = "returned" /\ broke
    /\ kind \in {"time_history", "pushover"}

Discretized == p_pc = "called" /\ p_fn = "_discretize_elements" /\ p_arg >= 2

Beams(m) == {k \in 1..Len(m.elements) : m.elements[k].type = "elasticBeamColumn"}

NotBeam(e) == e.type # "elasticBeamColumn"

NewNodeIds == {p_ret.internal_nodes[k].id : k \in 1..Len(p_ret.internal_nodes)}

NewElemIds ==
    UNION {Range(entry.sub_element_ids) : entry \in p_ret.discretization_map}

\* C12: for every ratio R >= 2, _discretize_elements creates R - 1 nodes
\* and R elements for each elasticBeamColumn element of the input, and
\* every element of another type is in the output unchanged.
C12_DiscretizerCardinality ==
    Discretized =>
        LET out == heap[p_ret.ref]
            R == p_arg
            B == Cardinality(Beams(p_before))
        IN /\ Len(out.nodes) = Len(p_before.nodes) + (R - 1) * B
           /\ Len(p_ret.internal_nodes) = (R - 1) * B
           /\ Len(out.elements) = Len(p_before.elements) - B + R * B
           /\ Cardinality(p_ret.discretization_map) = B
           /\ \A entry \in p_ret.discretization_map :
                 Len(entry.sub_element_ids) = R /\ Len(entry.node_chain) = R + 1
           /\ SelectSeq(out.elements, NotBeam) = SelectSeq(p_before.elements, NotBeam)
           /\ SubSeq(out.nodes, 1, Len(p_before.nodes)) = p_before.nodes

C12_Witness ==
    /\ Discretized /\ p_arg = 3
    /\ Cardinality(Beams(p_before)) = 1 /\ Len(p_before.elements) = 2
    /\ Len(heap[p_ret.ref].elements) = 4

\* C13: in the model returned by _discretize_elements node ids are
\* pairwise distinct and element ids are pairwise distinct; every
\* synthesized node id is above every input node id and every synthesized
\* element id is above every input element id and every bearing tag.
C13_FreshIds ==
    Discretized =>
        LET out == heap[p_ret.ref]
        IN /\ Cardinality(SelectSeqIds(out.nodes)) = Len(out.nodes)
           /\ Cardinality(SelectSeqIds(out.elements)) = Len(out.elements)
           /\ \A n \in NewNodeIds : \A old \in SelectSeqIds(p_before.nodes) : n > old
           /\ \A e \in NewElemIds :
                 /\ \A old \in SelectSeqIds(p_before.elements) : e > old
                 /\ \A b \in Range(p_before.bearings) : e > 10000 + b.id
           /\ Cardinality(NewElemIds) = p_arg * Cardinality(Beams(p_before))
           /\ Cardinality(NewNodeIds) = (p_arg - 1) * Cardinality(Beams(p_before))

C13_Witness ==
    /\ Discretized /\ Len(p_before.bearings) = 2 /\ Cardinality(Beams(p_before)) = 2
    /\ 10003 \in NewElemIds

\* Fixity flag of node nid on DOF f in the input; an empty list is free.
InputFlag(nid, f) ==
    LET n == CHOOSE x \in Range(p_before.nodes) : x.id = nid
    IN IF f <= Len(n.fixity) THEN n.fixity[f] ELSE 0

\* The interior node ids of one subdivided element.
Interior(entry) ==
    {entry.node_chain[k] : k \in 2..(Len(entry.node_chain) - 1)}

\* C14: every node synthesized by _discretize_elements has on each DOF the
\* AND of the fixity flags of the two endpoints of the subdivided element,
\* an empty fixity list counting as free.
C14_FixityIsAndOfEndpoints ==
    Discretized =>
        \A entry \in p_ret.discretization_map :
            \A n \in Range(heap[p_ret.ref].nodes) :
                n.id \in Interior(entry) =>
                    n.fixity =
                        [f \in 1..p_before.model_info.ndf |->
                            IF InputFlag(entry.node_chain[1], f) = 1
                               /\ InputFlag(entry.node_chain[Len(entry.node_chain)], f) = 1
                            THEN 1 ELSE 0]

InGroup(diaphragm, nid) ==
    nid = diaphragm.master_node_id \/ nid \in Range(diaphragm.constrained_node_ids)

\* C15: the intermediate nodes of a subdivided element are added to a
\* diaphragm's constrained nodes if and only if both endpoints of the
\* element belong to that diaphragm.
C15_DiaphragmAugmented ==
    Discretized =>
        LET out == heap[p_ret.ref]
        IN /\ Len(out.diaphragms) = Len(p_before.diaphragms)
           /\ \A g \in 1..Len(p_before.diaphragms) :
                 \A entry \in p_ret.discretization_map :
                    LET both == /\ InGroup(p_before.diaphragms[g], entry.node_chain[1])
                                /\ InGroup(p_before.diaphragms[g],
                                           entry.node_chain[Len(entry.node_chain)])
                    IN \A n \in Interior(entry) :
                          (n \in Range(out.diaphragms[g].constrained_node_ids)) <=> both

\* ------------------------------------------------------- caller's model

Generators == {"generate_fixed_base_variant", "apply_lambda_factor"}

\* C16: the model passed to _discretize_elements, to a run_* function, to
\* generate_fixed_base_variant or to apply_lambda_factor is never modified:
\* after the call it equals its value before the call, and a later change
\* to a variant returned by one of the two generators does not reach it.
C16_CallerModelUntouched ==
    /\ p_pc = "called" => heap[CallerRef] = p_before
    /\ (p_fn \in Generators \cup Kinds \/ (p_fn = "_discretize_elements" /\ p_arg >= 2)) =>
          /\ p_ret.ref # CallerRef
          /\ heap[CallerRef] = p_before

C16_Witness ==
    /\ p_pc = "changed" /\ p_fn = "apply_lambda_factor" /\ p_arg = 2
    /\ Len(heap[CallerRef].bearings) = 2 /\ heap[p_ret.ref].bearings = <<>>

C18_LambdaScaling ==
    (p_pc = "called" /\ p_fn = "apply_lambda_factor") =>
        LET out == heap[p_ret.ref]
        IN /\ Len(out.bearings) = Len(p_before.bearings)
           /\ \A b \in 1..Len(out.bearings) :
                 LET ob == out.bearings[b]
                     ib == p_before.bearings[b]
                 IN /\ Len(ob.friction_models) = Len(ib.friction_models)
                    /\ \A q \in 1..Len(ob.friction_models) :
                          /\ ob.friction_models[q].mu_slow =
                                p_arg * ib.friction_models[q].mu_slow
                          /\ ob.friction_models[q].mu_fast =
                                p_arg * ib.friction_models[q].mu_fast
                          /\ ob.friction_models[q].trans_rate =
                                ib.friction_models[q].trans_rate
                    /\ [ob EXCEPT !.friction_models = <<>>] =
                          [ib EXCEPT !.friction_models = <<>>]
           /\ [out EXCEPT !.bearings = <<>>] = [p_before EXCEPT !.bearings = <<>>]
           /\ p_arg = 1 => out = p_before

C18_Witness ==
    /\ p_pc = "called" /\ p_fn = "apply_lambda_factor" /\ p_arg = 2
    /\ Len(p_before.bearings) = 2
    /\ heap[p_ret.ref].bearings[2].friction_models[1].mu_slow = 24

\* ------------------------------------------------- _compute_hinge_states

HingeStates == p_pc = "called" /\ p_fn = "_compute_hinge_states"

Rank(level) ==
    CASE level = "None" -> 0 [] level = "IO" -> 1 [] level = "LS" -> 2 [] level = "CP" -> 3

C20_Original ==
    HingeStates =>
        \A k \in 1..Len(p_ret.hinge_states) :
            p_ret.hinge_states[k].performance_level \in {"IO", "LS", "CP"}

C20_Ends(forces) ==
    IF Len(forces) < 3 THEN 0
    ELSE (IF forces[3] # 0 THEN 1 ELSE 0)
         + (IF Len(forces) >= 6 /\ forces[6] # 0 THEN 1 ELSE 0)

\* C20 amended: _compute_hinge_states returns one record for every element
\* end whose moment is not (nearly) zero, whatever its demand/capacity
\* ratio; the record of an end with ratio below 1 has performance level
\* None and rotation 0, and only ends with no moment, and elements with
\* fewer than three force components, have no record.
C20_ElasticEndsRecorded ==
    HingeStates =>
        LET hs == p_ret.hinge_states
        IN /\ Len(hs) = Len(p_before.elements) * C20_Ends(p_arg)
           /\ \A k \in 1..Len(hs) :
                 /\ hs[k].moment > 0
                 /\ hs[k].demand_capacity_ratio[1] < hs[k].demand_capacity_ratio[2] =>
                       (hs[k].performance_level = "None" /\ hs[k].rotation = <<0, 1>>)

C20_Witness ==
    /\ HingeStates /\ Len(p_ret.hinge_states) = 2
    /\ p_ret.hinge_states[1].demand_capacity_ratio = <<1, 2>>
    /\ p_ret.hinge_states[1].performance_level = "None"
    /\ p_ret.hinge_states[2].performance_level = "CP"

\* The commands and warnings issued by a finished build_model call.
Built == p_pc = "called" /\ p_fn = "build_model"

Tagged == {"element", "frictionModel", "uniaxialMaterial"}

\* C21: the tags build_model registers are collision-free: no two element
\* commands (frame or bearing) carry the same tag, no two friction-model
\* commands (of one bearing, of two bearings, or user-defined) carry the same
\* tag, and no two material commands (synthetic or user-defined) carry the
\* same tag.
C21_TagsCollisionFree ==
    Built =>
        \A a, b \in DOMAIN p_ret.ops :
            (a < b /\ p_ret.ops[a].op \in Tagged /\ p_ret.ops[a].op = p_ret.ops[b].op)
                => p_ret.ops[a].tag # p_ret.ops[b].tag

\* The ndf DOF flags of a node: its fixity list cut or padded to ndf flags.
DofFlags(node, ndf) ==
    LET given == node.fixity
        v == IF given # <<>> /\ \A k \in 1..Len(given) : given[k] = 1 THEN 1 ELSE 0
    IN [k \in 1..ndf |-> IF k <= Len(given) THEN given[k] ELSE v]

FixOps(nid) ==
    {a \in DOMAIN p_ret.ops : p_ret.ops[a].op = "fix" /\ p_ret.ops[a].tag = nid}

\* C22: build_model applies a fixity to a node exactly when one of the
\* node's ndf DOF flags is restrained, and each applied fixity carries
\* exactly ndf flags.
C22_FixityIffRestrained ==
    Built =>
        \A n \in Range(p_before.nodes) :
            LET ndf == p_before.model_info.ndf
            IN /\ (FixOps(n.id) # {}) <=> (\E k \in 1..ndf : DofFlags(n, ndf)[k] = 1)
               /\ \A a \in FixOps(n.id) : p_ret.ops[a].args = DofFlags(n, ndf)

\* The vertical coordinate of a node of a y-up or z-up model, 0 when the
\* node has no such coordinate.
Height(m, n) ==
    LET axis == IF is_z_up(m) THEN 3 ELSE 2
    IN IF Len(n.coords) >= axis THEN n.coords[axis] ELSE 0

\* C23: without a given control node, run_pushover_analysis selects a node
\* of the analysed model that is not fully restrained and at least as high
\* as every other such node; a given control node is used as given.
C23_ControlNode ==
    (p_pc = "called" /\ p_fn = "run_pushover_analysis") =>
        LET m == heap[deepcopy(CallerRef)]
        IN IF p_arg # 0 THEN p_ret.control_node = p_arg
           ELSE \E n \in Range(m.nodes) :
                    /\ n.id = p_ret.control_node
                    /\ ~is_fixed(n)
                    /\ \A o \in Range(m.nodes) :
                           ~is_fixed(o) => Height(m, o) <= Height(m, n)

\* A control node was detected in a model whose first topmost node is fully
\* restrained.
C23_Witness ==
    /\ p_pc = "called" /\ p_fn = "run_pushover_analysis" /\ p_arg = 0
    /\ LET m == heap[deepcopy(CallerRef)]
       IN \E n \in Range(m.nodes) :
              /\ is_fixed(n) /\ n.id < p_ret.control_node
              /\ \A o \in Range(m.nodes) : Height(m, o) <= Height(m, n)

\* C24: in run_static_analysis, with or without bearings, a first attempt
\* at the gravity step that fails is followed by a retry with ModifiedNewton
\* on the same step; nothing is raised at that point.
C24_StaticRetries ==
    (kind = "static" /\ actx \in {"static_step", "g_main"}
        /\ tried = <<<<"Newton", FALSE>>>>) =>
        /\ err = "none"
        /\ pc = actx
        /\ algorithm_of(rung, alg) = "ModifiedNewton"

\* The type tags the translator recognises.
Recognised ==
    [materials |-> {"Elastic", "Steel02", "VelDependent"},
     sections |-> {"Elastic"},
     elements |-> {"elasticBeamColumn", "truss", "zeroLength"}]

\* The solver commands that create an entity of the given list.
Creating ==
    [materials |-> {"uniaxialMaterial", "frictionModel"},
     sections |-> {"section"},
     elements |-> {"element"}]

Issued(opnames, tag) ==
    \E a \in DOMAIN p_ret.ops : p_ret.ops[a].op \in opnames /\ p_ret.ops[a].tag = tag

\* C25: build_model always completes; for a material, section or element of
\* unrecognised type no solver object is created and a warning naming it is
\* recorded, and every node, bearing and entity of recognised type is
\* registered.
C25_UnknownTypeSkipped ==
    Built =>
        /\ \A list \in DOMAIN Recognised :
               \A e \in Range(p_before[list]) :
                   IF e.type \in Recognised[list]
                   THEN Issued(Creating[list], e.id)
                   ELSE /\ ~Issued(Creating[list], e.id)
                        /\ \E a \in DOMAIN p_ret.ops :
                               p_ret.ops[a] = Op("warning", e.type, e.id, <<>>)
        /\ \A n \in Range(p_before.nodes) : Issued({"node"}, n.id)
        /\ \A b \in Range(p_before.bearings) : Issued({"element"}, EleTagBase + b.id)

\* A model with an unrecognised material, an unrecognised section and an
\* unrecognised element next to recognised ones was built.
C25_Witness ==
    /\ Built
    /\ \A list \in DOMAIN Recognised :
           /\ \E e \in Range(p_before[list]) : e.type \notin Recognised[list]
           /\ \E e \in Range(p_before[list]) : e.type \in Recognised[list]
    /\ p_before.bearings # <<>>

Deformed == p_pc = "called" /\ p_fn = "_compute_deformed_shape"

\* The displacement list the function works with for a node.
Disp(nid) ==
    IF nid \in DOMAIN p_arg.node_displacements THEN p_arg.node_displacements[nid]
    ELSE [k \in 1..p_arg.ndm |-> 0]

\* C26: _compute_deformed_shape returns for every node the components below
\* min(ndm, number of coordinates, number of displacement components), each
\* equal to coords[i] + scale * disp[i]; the components are the original
\* coordinates when the displacements are zero or missing, and the offset
\* from the coordinates is the scale factor times the offset at scale 1.
C26_DeformedShape ==
    Deformed =>
        /\ DOMAIN p_ret.deformed = {n.id : n \in Range(p_before.nodes)}
        /\ \A n \in Range(p_before.nodes) :
               LET out == p_ret.deformed[n.id]
                   unit == compute_deformed_shape(p_before, p_arg.node_displacements,
                                                  p_arg.ndm, 1)[n.id]
               IN /\ \A len \in 0..3 :
                         (len <= p_arg.ndm /\ len <= Len(n.coords) /\ len <= Len(Disp(n.id))
                          /\ (len = p_arg.ndm \/ len = Len(n.coords) \/ len = Len(Disp(n.id))))
                             => Len(out) = len
                  /\ \A k \in 1..Len(out) :
                         /\ out[k] = n.coords[k] + p_arg.scale_factor * Disp(n.id)[k]
                         /\ Disp(n.id)[k] = 0 => out[k] = n.coords[k]
                         /\ out[k] - n.coords[k]
                                = p_arg.scale_factor * (unit[k] - n.coords[k])

\* A shape was computed at scale 2 with a node that moved, a node clipped
\* by its coordinates and a node without displacements.
C26_Witness ==
    /\ Deformed /\ p_arg.scale_factor = 2
    /\ p_arg.node_displacements = (1 :> <<2, -1, 1>>)
    /\ p_arg.ndm = 3
    /\ p_ret.deformed[1] = <<4, -2>>
    /\ p_ret.deformed[2] = <<60>>

\* The product of two quantities over the same eigenvalue.
Times(x, y) == Quantity(x.sign * y.sign, x.two_pi + y.two_pi, x.root + y.root, x.of)

ThReturned == kind = "time_history" /\ outcome = "returned"

\* C28: in every result returned by run_time_history every recorded series
\* is as long as the time series: each DOF series of each not-fully-fixed
\* node, each of the six series of each bearing and each force-component
\* series of each element, components first seen at a later step included.
C28_SeriesLengths ==
    ThReturned =>
        LET r == returned_result
            n == Len(r.time)
        IN /\ DOMAIN r.node_displacements = {x.id : x \in free_nodes(data)}
           /\ \A nid \in DOMAIN r.node_displacements :
                  /\ DOMAIN r.node_displacements[nid] = 1..data.model_info.ndf
                  /\ \A dof \in DOMAIN r.node_displacements[nid] :
                         Len(r.node_displacements[nid][dof]) = n
           /\ DOMAIN r.bearing_responses = BearingTags(data)
           /\ \A b \in DOMAIN r.bearing_responses :
                  /\ DOMAIN r.bearing_responses[b] = BearingKeys
                  /\ \A key \in BearingKeys : Len(r.bearing_responses[b][key]) = n
           /\ DOMAIN r.element_forces = ElementTags(data)
           /\ \A e \in DOMAIN r.element_forces :
                  \A c \in DOMAIN r.element_forces[e] : Len(r.element_forces[e][c]) = n

\* A returned run of two steps in which an element's force components first
\* appeared at the second step, with free nodes recorded.
C28_Witness ==
    /\ ThReturned /\ Len(time_vals) = 2
    /\ DOMAIN node_disp_history # {}
    /\ \E e \in DOMAIN element_force_history :
           /\ <<e, 1>> \in qfail
           /\ element_force_history[e] # <<>>
           /\ element_force_history[e][1][1] = 0

\* C29: in run_time_history the k-th recorded time value is k dt and, when
\* it is recorded, the solver has been advanced by k dt in all, whether the
\* step converged directly, through first-level sub-steps or through first-
\* and second-level sub-steps (a failed attempt advancing nothing); the time
\* series is strictly increasing and has at most num_steps entries.
C29_TimeValues ==
    (kind = "time_history" /\ pc # "idle") =>
        /\ \A k \in 1..Len(time_vals) : time_vals[k] = k * DT
        /\ (last = "query" /\ time_vals # <<>>) => t = Len(time_vals) * DT
        /\ pc = "th_record" => t = (Len(time_vals) + 1) * DT
        /\ \A k \in 1..(Len(time_vals) - 1) : time_vals[k] < time_vals[k + 1]
        /\ Len(time_vals) <= num_steps

\* The second time value was recorded after a step that converged through
\* first- and second-level sub-steps.
C29_Witness ==
    /\ kind = "time_history" /\ last = "query" /\ Len(time_vals) = 2
    /\ actx = "th_sub2" /\ step_dt * C6_N * SubFactor = DT /\ t = 2 * DT

\* The load factor 1, in units of dLambda / 10.
FullLoad == GravitySteps * MiniSteps

\* _run_gravity_preload is running or has just returned.
InPreload == pc \in {"g_main", "g_mini", "g_hold"}

\* C30: _run_gravity_preload returns 0 only after each of its num_steps
\* increments has been applied in full, as one step or as 10 mini-steps, so
\* that the load factor is exactly 1, and the loads are then held constant;
\* it returns nonzero as soon as a mini-step has failed, with no further
\* increment and without holding the loads constant.
C30_PreloadReturn ==
    (kind # "none" /\ has_bearings(data)) =>
        /\ pc \in {"g_main", "g_mini"} =>
               (t = step * MiniSteps + i /\ step < GravitySteps /\ i < MiniSteps)
        /\ pc = "g_main" => i = 0
        /\ pc = "g_hold" => (t = FullLoad /\ gravity_result = 0 /\ last # "loadConst")
        /\ last = "loadConst" => (gravity_result = 0 /\ ~InPreload)
        /\ gravity_result # 0 =>
               /\ ~InPreload /\ last # "loadConst"
               /\ last = "integrator" =>
                      (actx = "g_mini" /\ res = "fail" /\ t < FullLoad)

\* The preload has applied its last increment in mini-steps and is about
\* to hold the loads constant.
C30_Witness ==
    pc = "g_hold" /\ actx = "g_mini" /\ t = FullLoad /\ has_bearings(data)

\* C31: whatever the solver answers, the analyze calls of one outer step
\* are bounded: at most 6 + 15 N (N = 10 or 20) in run_time_history, at most
\* 3 per increment in run_pushover_analysis and at most 23 per increment in
\* _run_gravity_preload; no loop runs more than its number of outer steps.
C31_BoundedCalls ==
    counted =>
        /\ pc \in {"th_main", "th_sub1", "th_sub2", "th_record"} =>
               (n_analyze <= 6 + 15 * C6_N /\ step < num_steps)
        /\ kind = "time_history" => Len(time_vals) <= num_steps
        /\ pc \in {"po_step", "po_final"} => (n_analyze <= 3 /\ step <= num_steps)
        /\ pc = "po_step" => step < num_steps
        /\ pc \in {"g_main", "g_mini", "g_hold"} =>
               (n_analyze <= 3 + 2 * MiniSteps /\ step < GravitySteps)

\* A time-history step on the model with more than four bearings converged
\* with the largest number of analyze calls.
C31_Witness ==
    /\ counted /\ pc = "th_record" /\ Len(data.bearings) > 4
    /\ n_analyze = 6 + 15 * 20

\* C32: in run_modal_analysis, run_time_history and run_pushover_analysis a
\* failed gravity stage (preload, or the single gravity step of a pushover
\* without bearings) raises nothing: the analysis goes on and returns a
\* result; in run_static_analysis it is fatal.
C32_GravityFailureTolerated ==
    gravity_result # 0 =>
        IF kind = "static"
        THEN err = "converge" /\ pc \in {"finally", "done"} /\ outcome # "returned"
        ELSE /\ kind \in {"modal", "time_history", "pushover"}
             /\ err = "none"
             /\ pc \in {"eigen", "th_setup", "th_main", "th_sub1", "th_sub2", "th_record",
                        "po_setup", "po_step", "po_final", "finally", "done"}
             /\ pc = "done" => outcome = "returned"

\* run_time_history returned recorded steps after a failed preload.
C32_Witness ==
    /\ kind = "time_history" /\ gravity_result = -3 /\ pc = "done"
    /\ outcome = "returned" /\ time_vals # <<>>

\* The element of the input that a discretization-map entry stands for.
OriginalOf(entry) == CHOOSE e \in Range(p_before.elements) : e.id = entry.elem_id

\* The element of the returned model with the given id.
SubElement(id) == CHOOSE e \in Range(heap[p_ret.ref].elements) : e.id = id

\* C33: every elasticBeamColumn element of the input has one
\* discretization-map entry; its node chain has R + 1 nodes from the
\* original first node to the original second node, its R sub-elements
\* join consecutive chain nodes and carry the original's section and
\* transform, and no interior node is in another entry's chain.
C33_ChainIsPath ==
    Discretized =>
        LET R == p_arg
            dmap == p_ret.discretization_map
        IN /\ {entry.elem_id : entry \in dmap} =
                  {p_before.elements[k].id : k \in Beams(p_before)}
           /\ \A entry \in dmap :
                 LET orig == OriginalOf(entry)
                 IN /\ Len(entry.node_chain) = R + 1
                    /\ Len(entry.sub_element_ids) = R
                    /\ entry.node_chain[1] = orig.nodes[1]
                    /\ entry.node_chain[R + 1] = orig.nodes[2]
                    /\ \A k \in 1..R :
                          LET sub == SubElement(entry.sub_element_ids[k])
                          IN /\ entry.sub_element_ids[k] \in
                                    SelectSeqIds(heap[p_ret.ref].elements)
                             /\ sub.nodes = <<entry.node_chain[k], entry.node_chain[k + 1]>>
                             /\ sub.section_id = orig.section_id
                             /\ sub.transform = orig.transform
                             /\ sub.type = "elasticBeamColumn"
                    /\ \A other \in dmap \ {entry} :
                          Interior(entry) \cap Range(other.node_chain) = {}
                    /\ Cardinality(Range(entry.node_chain)) = R + 1

\* Two beams that share node 2, split in three; the second has section 2
\* and the PDelta transform.
C33_Witness ==
    /\ Discretized /\ p_arg = 3 /\ Cardinality(p_ret.discretization_map) = 2
    /\ \E entry \in p_ret.discretization_map :
          /\ OriginalOf(entry).transform = "PDelta"
          /\ OriginalOf(entry).section_id = 2
          /\ OriginalOf(entry).nodes = <<2, 3>>
          /\ SubElement(entry.sub_element_ids[2]).nodes =
                 <<entry.node_chain[2], entry.node_chain[3]>>

Built3D == p_pc = "called" /\ p_fn = "_build_3d_elements"

\* The beam of a 3D input is vertical with respect to the coordinate index
\* `idx` when that component of its direction exceeds 0.9 of its length.
VerticalBy(m, idx) ==
    LET tip == m.nodes[2].coords
    IN steep(tip[idx], tip[1] * tip[1] + tip[2] * tip[2] + tip[3] * tip[3])

\* C34: the reference vector and the Iy/Iz swap of _build_3d_elements
\* follow the vertical index that _vert_coord_idx gives for mass
\* assignment, lateral-load heights and the control node; a 3D model with
\* bearings is Z-up for all of them with or without the z_up flag.
C34_OneUpAxis ==
    Built3D =>
        LET m == p_arg
            z == vert_coord_idx(m) = 3
            up == IF z THEN <<0, 0, 1>> ELSE <<0, 1, 0>>
        IN /\ Len(m.bearings) > 0 => z
           /\ \A k \in 1..Len(p_ret.ops) :
                 LET o == p_ret.ops[k]
                 IN /\ (o.op = "geomTransf" /\ m.nodes[2].coords # <<0, 0, 0>>) =>
                           o.args = IF VerticalBy(m, vert_coord_idx(m))
                                    THEN <<1, 0, 0>> ELSE up
                    /\ o.op = "element" =>
                           <<o.args[3], o.args[4]>> =
                               IF z THEN <<722, 121>> ELSE <<121, 722>>

\* ---------------------------------------------------------- run_comparison

Compared == p_pc = "called" /\ p_fn = "run_comparison"

\* validate_friction_models of TFPBearingSchema, for every bearing.
BearingInvariant(m) ==
    \A b \in 1..Len(m.bearings) :
        \A q \in 1..Len(m.bearings[b].friction_models) :
            LET fm == m.bearings[b].friction_models[q]
            IN fm.mu_slow >= 0 /\ fm.mu_fast >= 0 /\ fm.mu_fast >= fm.mu_slow

\* C35: every model run_comparison hands to the solver, the upper- and
\* lower-bound lambda variants included, has non-negative friction
\* coefficients with mu_fast >= mu_slow on every surface, whatever
\* lambda_factors the request carries, when the stored model has.
C35_VariantsKeepBearingInvariant ==
    (Compared /\ BearingInvariant(p_before)) =>
        \A k \in 1..Len(p_ret.handed) : BearingInvariant(p_ret.handed[k].model)

\* C36: a time_history comparison with at least one ground-motion record
\* runs run_time_history on the stored model, then on the fixed-base
\* variant, and answers 'complete' with both result sets when both runs
\* return.
C36_TimeHistoryComparison ==
    (Compared /\ p_arg.type = "time_history" /\ p_arg.n_records >= 1) =>
        LET isolated == [fn |-> "run_time_history", model |-> p_before]
            fixed == [fn |-> "run_time_history",
                      model |-> generate_fixed_base_variant(p_before)]
        IN /\ Len(p_ret.handed) >= 1 /\ p_ret.handed[1] = isolated
           /\ p_arg.raising # 1 => (Len(p_ret.handed) = 2 /\ p_ret.handed[2] = fixed)
           /\ p_arg.raising \notin {1, 2} =>
                 /\ p_ret.response.status = "complete"
                 /\ p_ret.response.isolated /\ p_ret.response.fixed_base

\* ------------------------------------------------------- analysis store

Running == [status |-> "running", results |-> FALSE, error |-> FALSE]

Completed == [status |-> "completed", results |-> TRUE, error |-> FALSE]

Failed == [status |-> "failed", results |-> FALSE, error |-> TRUE]

\* C37: an analysis-store entry is created 'running', changes exactly once,
\* to 'completed' with results and no error or to 'failed' with an error
\* and no results, no later than the step in which its request finishes,
\* and is never changed afterwards; no entry of a finished request is
\* 'running'.
C37_StoreLifecycle ==
    /\ [][\A r \in Requests :
             store'[r] # store[r] =>
                 \/ store[r] = NoEntry /\ store'[r] = Running
                 \/ /\ store[r] = Running /\ store'[r] \in {Completed, Failed}
                    /\ req[r].pc # "responded" /\ req'[r].pc = "responded"]_vars
    /\ [](\A r \in Requests :
             /\ req[r].pc = "responded" => store[r].status \in {"none", "completed", "failed"}
             /\ store[r] \in {NoEntry, Running, Completed, Failed})

\* One request failed and the other completed, both finished.
C37_Witness ==
    /\ \A r \in Requests : req[r].pc = "responded" /\ req[r].endpoint = "analysis"
    /\ {store[r] : r \in Requests} = {Completed, Failed}

\* ---------------------------------------------------- StructuralModelSchema

Validated == p_pc = "called" /\ p_fn = "StructuralModelSchema"

\* C38: in every model StructuralModelSchema accepts, the nodes of every
\* element and bearing exist, the section of every element that names one
\* exists, and the material of every section exists.
C38_ReferentialIntegrity ==
    (Validated /\ p_ret.accepted) =>
        LET m == p_arg
        IN /\ \A k \in 1..Len(m.elements) :
                 /\ Range(m.elements[k].nodes) \subseteq SelectSeqIds(m.nodes)
                 /\ m.elements[k].section_id # 0 =>
                        m.elements[k].section_id \in SelectSeqIds(m.sections)
           /\ \A k \in 1..Len(m.bearings) :
                 Range(m.bearings[k].nodes) \subseteq SelectSeqIds(m.nodes)
           /\ \A k \in 1..Len(m.sections) :
                 m.sections[k].material_id \in SelectSeqIds(m.materials)

\* ------------------------------------ run_modal_analysis, mass participation

Participated == p_pc = "called" /\ p_fn = "mass_participation"

\* C39: every mass participation ratio lies in [0, 1], whatever the masses
\* and mode-shape values, and is 0 when the modal mass term is zero.
C39_RatioInUnitInterval ==
    Participated =>
        /\ 0 <= p_ret.ratio[1] /\ p_ret.ratio[1] <= p_ret.ratio[2]
        /\ p_ret.M_n[1] = 0 => p_ret.ratio[1] = 0

\* ----------------------------------------------------------- eleResponse

\* C40: the element force queries of run_static_analysis, run_time_history
\* and run_pushover_analysis request 'localForce', never 'force'; the
\* bearing queries request 'basicDisplacement' and 'basicForce'.
C40_LocalForceRequested ==
    \A q \in queried :
        /\ q[1] \in ElementTags(data) => q[2] = "localForce"
        /\ q[1] \in BearingTags(data) => q[2] \in {"basicDisplacement", "basicForce"}

====
